---- MODULE Spec2Model ----
(***************************************************************************)
(* Investment-plan ledger: users, plans, investments, the admin            *)
(* configuration and the daily profit / commission batch                   *)
(* (src/controllers.js, schemas in src/unnamed/part_000).                  *)
(*                                                                         *)
(* Money is kept in hundredths of a currency unit and rates in percent, so *)
(* that every product the handlers compute on the modelled plans is exact. *)
(* Time is a count of ticks.  The handlers compare dates with local        *)
(* midnights only (today.setHours(0, 0, 0, 0)), so a calendar day is split *)
(* into TicksPerDay = 2 instants: tick 0 is midnight itself, tick 1 any    *)
(* later time of that day.                                                 *)
(***************************************************************************)
EXTENDS Integers, Sequences, FiniteSets, TLC

\* ------------------------------------------------------------------ bounds
\* number of Investment documents ever created
MaxInvestments == 2
\* number of Deposit and of Withdrawal documents ever created
MaxDeposits == 1
MaxWithdrawals == 2
\* number of writes that reject
MaxFaults == 2

\* -------------------------------------------------------- time resolution
\* midnight, and the rest of the day
TicksPerDay == 2

\* ------------------------------------------------------- program constants
DefaultDurationDays == 60
DefaultActivationCommission == 5
DefaultDailyCommission == 2
DefaultMinDeposit == 5000
DefaultMinWithdrawal == 100
DefaultMaxWithdrawal == 500000

\* --------------------------------------------------------------- universe
UserIds == {"R", "A"}
PlanIds == {"basic", "gold"}
NoUser == "none"
NoCode == "nocode"

\* the commission settings an administrator switches between
ConfigInputs ==
    {[isPromotionActive |-> TRUE,
      commissionOnPlanActivation |-> DefaultActivationCommission,
      commissionOnDailyProfit |-> DefaultDailyCommission],
     [isPromotionActive |-> FALSE,
      commissionOnPlanActivation |-> DefaultActivationCommission,
      commissionOnDailyProfit |-> DefaultDailyCommission],
     [isPromotionActive |-> TRUE,
      commissionOnPlanActivation |-> 0,
      commissionOnDailyProfit |-> 0]}

\* AdminConfig.create({}): the schema defaults; a time of day "HH:MM" is kept
\* as the pair of its two numbers
DefaultConfig ==
    [isPromotionActive |-> TRUE,
     commissionOnPlanActivation |-> DefaultActivationCommission,
     commissionOnDailyProfit |-> DefaultDailyCommission,
     minDepositAmount |-> DefaultMinDeposit,
     withdrawalStartTime |-> <<8, 0>>,
     withdrawalEndTime |-> <<18, 0>>,
     minWithdrawalAmount |-> DefaultMinWithdrawal,
     maxWithdrawalAmount |-> DefaultMaxWithdrawal]

\* the withdrawal windows an administrator switches between
WindowInputs ==
    {[withdrawalStartTime |-> <<8, 0>>, withdrawalEndTime |-> <<18, 0>>],
     [withdrawalStartTime |-> <<0, 0>>, withdrawalEndTime |-> <<8, 0>>]}

\* the amounts a user asks to deposit or to withdraw
DepositAmounts == {1000, 1000000}
WithdrawalAmounts == {50, 500000, 500100}

\* the instants at which a request or a scheduler tick is observed
Days == {0, DefaultDurationDays, DefaultDurationDays + 1}
Instants == {d * TicksPerDay + k : d \in Days, k \in 0 .. (TicksPerDay - 1)}

\* the local minutes of the day a request arriving at instant t may read:
\* tick 0 is 00:00, the later tick any other minute
MinutesOfDay == {0, 480, 1080, 1081}
MinutesAt(t) == IF t = (t \div TicksPerDay) * TicksPerDay
                THEN {0}
                ELSE MinutesOfDay \ {0}

VARIABLES now, users, plans, investments, adminConfig, accrualLog,
          deposits, withdrawals, calls, faults

vars == <<now, users, plans, investments, adminConfig, accrualLog,
          deposits, withdrawals, calls, faults>>

\* ---------------------------------------------------------------- helpers
\* a * (r / 100), the Number product `amount * rate` with rate given in percent
Pct(a, r) == (a * r) \div 100

\* today = new Date(); today.setHours(0, 0, 0, 0)
Midnight(t) == (t \div TicksPerDay) * TicksPerDay

\* d = new Date(); d.setDate(d.getDate() + days)
AddDays(t, days) == t + days * TicksPerDay

\* User.findOne({ referralCode: code })
FindByReferralCode(us, code) ==
    IF code # NoCode /\ \E v \in UserIds : us[v].referralCode = code
    THEN CHOOSE v \in UserIds : us[v].referralCode = code
    ELSE NoUser

\* array.filter(id => id.toString() !== x.toString())
FilterOut(s, x) == SelectSeq(s, LAMBDA e : e # x)

\* ------------------------------------------------------------------- Init
InitUsers ==
    [u \in UserIds |->
        [balance |-> 2000000,
         status |-> "active",
         isAdmin |-> FALSE,
         referralCode |-> u,
         invitedBy |-> CASE u = "R" -> NoCode
                         [] u = "A" -> "R",
         activeInvestments |-> <<>>]]

InitPlans ==
    [p \in PlanIds |->
        IF p = "basic"
        THEN [minAmount |-> 1000000, dailyProfitRate |-> 2,
              durationDays |-> DefaultDurationDays, isActive |-> TRUE]
        ELSE [minAmount |-> 2000000, dailyProfitRate |-> 3,
              durationDays |-> DefaultDurationDays, isActive |-> TRUE]]

Init ==
    /\ now \in {0, 1}
    /\ users = InitUsers
    /\ plans = InitPlans
    /\ investments = <<>>
    /\ adminConfig = DefaultConfig
    /\ accrualLog = {}
    /\ deposits = <<>>
    /\ withdrawals = <<>>
    /\ calls = <<>>
    /\ faults = 0

\* ---------------------------------------------------------------- actions
\* the wall clock moves on to a later observed instant
AdvanceClock ==
    /\ \E t \in Instants : t > now /\ now' = t
    /\ UNCHANGED <<users, plans, investments, adminConfig, accrualLog,
                   deposits, withdrawals, calls,
                   faults>>

\* --------------------------------------------------------------- handlers
\* variant: the status is not looked at
ProtectedAlways(u) == TRUE

\* protect middleware: a blocked account is turned away before the controller
Protected(u) == users[u].status # "blocked"

\* variant: the end date left at the time of purchase
NewInvestmentNoDuration(u, p, plan, t) ==
    [userId |-> u,
     planId |-> p,
     investedAmount |-> plan.minAmount,
     dailyProfitRate |-> plan.dailyProfitRate,
     endDate |-> t,
     currentProfit |-> 0,
     lastProfitCreditDate |-> t,
     status |-> "active"]

\* variant: the date of the last credit left at the epoch by the schema
NewInvestmentNeverCredited(u, p, plan, t) ==
    [userId |-> u,
     planId |-> p,
     investedAmount |-> plan.minAmount,
     dailyProfitRate |-> plan.dailyProfitRate,
     endDate |-> AddDays(t, plan.durationDays),
     currentProfit |-> 0,
     lastProfitCreditDate |-> -1,
     status |-> "active"]

\* Investment.create({userId, planId, investedAmount, dailyProfitRate, endDate})
\* with the schema defaults currentProfit 0, lastProfitCreditDate now, status active
NewInvestment(u, p, plan, t) ==
    [userId |-> u,
     planId |-> p,
     investedAmount |-> plan.minAmount,
     dailyProfitRate |-> plan.dailyProfitRate,
     endDate |-> AddDays(t, plan.durationDays),
     currentProfit |-> 0,
     lastProfitCreditDate |-> t,
     status |-> "active"]

\* the commission step shared by activateInvestment and upgradeInvestment:
\* user.invitedBy && adminConfig.isPromotionActive && rate > 0, then the
\* inviter found by referral code is credited amount * rate and saved
CreditActivationCommission(us, u, amount) ==
    LET inviter == FindByReferralCode(us, us[u].invitedBy) IN
    IF /\ us[u].invitedBy # NoCode
       /\ adminConfig.isPromotionActive
       /\ adminConfig.commissionOnPlanActivation > 0
       /\ inviter # NoUser
    THEN [us EXCEPT ![inviter].balance =
             @ + Pct(amount, adminConfig.commissionOnPlanActivation)]
    ELSE us

\* variant: the slot is never looked at
SlotTakenNever(user) == FALSE

\* user.activeInvestments && user.activeInvestments.length > 0
SlotTaken(user) == Len(user.activeInvestments) > 0

\* variant: the balance is never compared with the price
InsufficientNever(balance, amount) == FALSE

\* user.balance < amount, the test made before every debit
Insufficient(balance, amount) == balance < amount

\* variant: a price of zero is let through
InvalidAmountNegative(amount) == amount < 0

\* amount <= 0 is refused by activateInvestment
InvalidAmount(amount) == amount <= 0

\* POST /api/investments
ActivateInvestment(u, p) ==
    LET plan == plans[p]
        amount == plan.minAmount
        id == Len(investments) + 1
        debited == [users EXCEPT ![u].balance = @ - amount,
                                 ![u].activeInvestments = Append(@, id)]
    IN
    /\ UNCHANGED <<now, plans, adminConfig, accrualLog, deposits, withdrawals, calls,
                   faults>>
    /\ IF ~Protected(u)
       THEN UNCHANGED <<users, investments>>
       ELSE IF ~plan.isActive
       THEN UNCHANGED <<users, investments>>
       ELSE IF \/ SlotTaken(users[u])
               \/ InvalidAmount(amount)
               \/ Insufficient(users[u].balance, amount)
       THEN UNCHANGED <<users, investments>>
       ELSE /\ Len(investments) < MaxInvestments
            /\ investments' = Append(investments, NewInvestment(u, p, plan, now))
            /\ users' = CreditActivationCommission(debited, u, amount)

\* variant: a plan of the same price is let through
PriceIsHigherOrEqual(newAmount, currentAmount) == newAmount >= currentAmount

\* newAmount <= currentAmount is refused
PriceIsHigher(newAmount, currentAmount) == newAmount > currentAmount

\* variant: the date of the last credit is left as it was
UpgradedInvestmentKeepsCreditDate(inv, p, newPlan, t) ==
    [inv EXCEPT !.planId = p,
                !.investedAmount = newPlan.minAmount,
                !.dailyProfitRate = newPlan.dailyProfitRate,
                !.endDate = AddDays(t, newPlan.durationDays)]

\* the in-place mutation of the current investment by upgradeInvestment
UpgradedInvestment(inv, p, newPlan, t) ==
    [inv EXCEPT !.planId = p,
                !.investedAmount = newPlan.minAmount,
                !.dailyProfitRate = newPlan.dailyProfitRate,
                !.endDate = AddDays(t, newPlan.durationDays),
                !.lastProfitCreditDate = t]

\* POST /api/investments/upgrade; the log line written after the two saves
\* reads currentPlan.name, which throws when the plan populated on the
\* investment has been deleted, so that the commission is then not reached
UpgradeInvestment(u, p) ==
    LET newPlan == plans[p]
        id == users[u].activeInvestments[1]
        activeInvestment == investments[id]
        newAmount == newPlan.minAmount
        priceDifference == newAmount - activeInvestment.investedAmount
        debited == [users EXCEPT ![u].balance = @ - priceDifference]
    IN
    /\ UNCHANGED <<now, plans, adminConfig, accrualLog, deposits, withdrawals, calls,
                   faults>>
    /\ IF ~Protected(u)
       THEN UNCHANGED <<users, investments>>
       ELSE IF ~newPlan.isActive
       THEN UNCHANGED <<users, investments>>
       ELSE IF Len(users[u].activeInvestments) = 0
       THEN UNCHANGED <<users, investments>>
       ELSE IF \/ ~PriceIsHigher(newAmount, activeInvestment.investedAmount)
               \/ Insufficient(users[u].balance, priceDifference)
       THEN UNCHANGED <<users, investments>>
       ELSE /\ investments' = [investments EXCEPT
                                  ![id] = UpgradedInvestment(@, p, newPlan, now)]
            /\ users' = IF activeInvestment.planId \in DOMAIN plans
                        THEN CreditActivationCommission(debited, u, priceDifference)
                        ELSE debited

\* PUT /api/admin/users/:id/block
BlockUser(u) ==
    /\ IF users[u].isAdmin
       THEN UNCHANGED users
       ELSE users' = [users EXCEPT ![u].status = "blocked"]
    /\ UNCHANGED <<now, plans, investments, adminConfig, accrualLog,
                   deposits, withdrawals, calls,
                   faults>>

\* PUT /api/admin/users/:id/unblock
UnblockUser(u) ==
    /\ users' = [users EXCEPT ![u].status = "active"]
    /\ UNCHANGED <<now, plans, investments, adminConfig, accrualLog,
                   deposits, withdrawals, calls,
                   faults>>

\* PUT /api/admin/config: a field the body carries replaces the stored one,
\* every other field is kept
UpdateAdminConfig(body) ==
    /\ adminConfig' = [f \in DOMAIN adminConfig |->
                          IF f \in DOMAIN body THEN body[f] ELSE adminConfig[f]]
    /\ UNCHANGED <<now, users, plans, investments, accrualLog,
                   deposits, withdrawals, calls,
                   faults>>

\* ------------------------------------------------------------- the plans
\* the plan an administrator adds, besides the two of the installation
PlanUniverse == PlanIds \cup {"vip"}

\* the bodies of PUT /api/admin/investmentplans/:id
PlanEdits ==
    {[minAmount |-> 3000000, dailyProfitRate |-> 5],
     [isActive |-> FALSE],
     [isActive |-> TRUE]}

\* the bodies of POST /api/admin/investmentplans
PlanCreations == {[minAmount |-> 500000, dailyProfitRate |-> 1]}

\* POST /api/admin/investmentplans: the new document takes the schema
\* defaults durationDays 60 and isActive true; its id is one no document
\* refers to
CreateInvestmentPlan(p, body) ==
    /\ p \notin DOMAIN plans
    /\ \A i \in DOMAIN investments : investments[i].planId # p
    /\ body.minAmount # 0 /\ body.dailyProfitRate # 0
    /\ plans' = [q \in DOMAIN plans \cup {p} |->
                    IF q = p
                    THEN [minAmount |-> body.minAmount,
                          dailyProfitRate |-> body.dailyProfitRate,
                          durationDays |-> DefaultDurationDays,
                          isActive |-> TRUE]
                    ELSE plans[q]]
    /\ UNCHANGED <<now, users, investments, adminConfig, accrualLog,
                   deposits, withdrawals, calls, faults>>

\* PUT /api/admin/investmentplans/:id: a field the body carries replaces the
\* stored one; durationDays is immutable
UpdateInvestmentPlan(p, body) ==
    /\ p \in DOMAIN plans
    /\ plans' = [plans EXCEPT ![p] =
                    [f \in DOMAIN plans[p] |->
                        IF f \in DOMAIN body THEN body[f] ELSE plans[p][f]]]
    /\ UNCHANGED <<now, users, investments, adminConfig, accrualLog,
                   deposits, withdrawals, calls, faults>>

\* DELETE /api/admin/investmentplans/:id: refused while an active investment
\* uses the plan
DeleteInvestmentPlan(p) ==
    /\ p \in DOMAIN plans
    /\ UNCHANGED <<now, users, investments, adminConfig, accrualLog,
                   deposits, withdrawals, calls, faults>>
    /\ IF \E i \in DOMAIN investments :
             investments[i].planId = p /\ investments[i].status = "active"
       THEN UNCHANGED plans
       ELSE plans' = [q \in DOMAIN plans \ {p} |-> plans[q]]

\* ----------------------------------------------------------- the ledger
\* POST /api/deposits
RequestDeposit(u, amount) ==
    /\ UNCHANGED <<now, users, plans, investments, adminConfig, accrualLog,
                   withdrawals, calls,
                   faults>>
    /\ IF ~Protected(u)
       THEN UNCHANGED deposits
       ELSE IF amount < adminConfig.minDepositAmount
       THEN UNCHANGED deposits
       ELSE /\ Len(deposits) < MaxDeposits
            /\ deposits' = Append(deposits,
                   [userId |-> u, amount |-> amount, status |-> "pending"])

\* variant: only an approved record is refused
IsPendingOrRejected(doc) == doc.status # "approved"

\* status !== 'pending' is refused
IsPending(doc) == doc.status = "pending"

\* PUT /api/admin/deposits/:id/approve
ApproveDeposit(d) ==
    /\ UNCHANGED <<now, plans, investments, adminConfig, accrualLog,
                   withdrawals, calls,
                   faults>>
    /\ IF d \notin DOMAIN deposits
       THEN UNCHANGED <<users, deposits>>
       ELSE IF ~IsPending(deposits[d])
       THEN UNCHANGED <<users, deposits>>
       ELSE /\ deposits' = [deposits EXCEPT ![d].status = "approved"]
            /\ users' = [users EXCEPT ![deposits[d].userId].balance =
                            @ + deposits[d].amount]

\* PUT /api/admin/deposits/:id/reject
RejectDeposit(d) ==
    /\ UNCHANGED <<now, users, plans, investments, adminConfig, accrualLog,
                   withdrawals, calls,
                   faults>>
    /\ IF d \notin DOMAIN deposits
       THEN UNCHANGED deposits
       ELSE IF ~IsPending(deposits[d])
       THEN UNCHANGED deposits
       ELSE deposits' = [deposits EXCEPT ![d].status = "rejected"]

\* parseTime: "HH:MM" split at the colon, hour * 60 + minute
ParseTime(timeStr) == timeStr[1] * 60 + timeStr[2]

\* variant: the end of the window shut out
IsWithdrawalTimeAllowedHalfOpen(startTime, endTime, currentTimeInMinutes) ==
    /\ currentTimeInMinutes >= ParseTime(startTime)
    /\ currentTimeInMinutes < ParseTime(endTime)

\* isWithdrawalTimeAllowed, with the clock's hour * 60 + minute passed in
IsWithdrawalTimeAllowed(startTime, endTime, currentTimeInMinutes) ==
    /\ currentTimeInMinutes >= ParseTime(startTime)
    /\ currentTimeInMinutes <= ParseTime(endTime)

\* POST /api/withdrawals, received at minute m of the day; of requestDate
\* (schema default Date.now) the minute of the day is kept
RequestWithdrawal(u, amount, m) ==
    /\ UNCHANGED <<now, plans, investments, adminConfig, accrualLog,
                   deposits, calls,
                   faults>>
    /\ IF ~Protected(u)
       THEN UNCHANGED <<users, withdrawals>>
       ELSE IF amount <= 0
       THEN UNCHANGED <<users, withdrawals>>
       ELSE IF ~IsWithdrawalTimeAllowed(adminConfig.withdrawalStartTime,
                                        adminConfig.withdrawalEndTime, m)
       THEN UNCHANGED <<users, withdrawals>>
       ELSE IF \/ amount < adminConfig.minWithdrawalAmount
               \/ amount > adminConfig.maxWithdrawalAmount
       THEN UNCHANGED <<users, withdrawals>>
       ELSE IF Insufficient(users[u].balance, amount)
       THEN UNCHANGED <<users, withdrawals>>
       ELSE /\ Len(withdrawals) < MaxWithdrawals
            /\ withdrawals' = Append(withdrawals,
                   [userId |-> u, amount |-> amount, status |-> "pending",
                    requestDate |-> m])
            /\ users' = [users EXCEPT ![u].balance = @ - amount]

\* PUT /api/admin/withdrawals/:id/approve
ApproveWithdrawal(w) ==
    /\ UNCHANGED <<now, users, plans, investments, adminConfig, accrualLog,
                   deposits, calls,
                   faults>>
    /\ IF w \notin DOMAIN withdrawals
       THEN UNCHANGED withdrawals
       ELSE IF ~IsPending(withdrawals[w])
       THEN UNCHANGED withdrawals
       ELSE withdrawals' = [withdrawals EXCEPT ![w].status = "approved"]

\* variant: nothing is given back
RefundedNothing(balance, amount) == balance

\* user.balance += withdrawal.amount
Refunded(balance, amount) == balance + amount

\* PUT /api/admin/withdrawals/:id/reject
RejectWithdrawal(w) ==
    /\ UNCHANGED <<now, plans, investments, adminConfig, accrualLog,
                   deposits, calls,
                   faults>>
    /\ IF w \notin DOMAIN withdrawals
       THEN UNCHANGED <<users, withdrawals>>
       ELSE IF ~IsPending(withdrawals[w])
       THEN UNCHANGED <<users, withdrawals>>
       ELSE /\ withdrawals' = [withdrawals EXCEPT ![w].status = "rejected"]
            /\ users' = [users EXCEPT ![withdrawals[w].userId].balance =
                            Refunded(@, withdrawals[w].amount)]

\* ------------------------------------------------------- the daily batch
\* variant: the date filter written with $lte
DueForCreditLte(inv, today) ==
    inv.status = "active" /\ inv.lastProfitCreditDate <= today

\* Investment.find({status: 'active', lastProfitCreditDate: {$lt: today}})
DueForCredit(inv, today) ==
    inv.status = "active" /\ inv.lastProfitCreditDate < today

\* variant: the maturity test written with a strict comparison
MaturedStrict(inv, today) == inv.endDate < today

\* investment.endDate <= today
Matured(inv, today) == inv.endDate <= today

\* variant: the profit taken on the profit already accumulated as well
DailyProfitCompound(inv) ==
    Pct(inv.investedAmount + inv.currentProfit, inv.dailyProfitRate)

\* variant: the price and the rate read from the plan as it is now
DailyProfitOfPlan(inv) ==
    IF inv.planId \in DOMAIN plans
    THEN Pct(plans[inv.planId].minAmount, plans[inv.planId].dailyProfitRate)
    ELSE 0

\* dailyProfit = investment.investedAmount * investment.dailyProfitRate
DailyProfit(inv) == Pct(inv.investedAmount, inv.dailyProfitRate)

\* variant: the inviter's status is not looked at
InviterMayEarnAnyStatus(us, inviter) == inviter # NoUser

\* inviter && inviter.status === 'active'
InviterMayEarn(us, inviter) ==
    inviter # NoUser /\ us[inviter].status = "active"

\* the result of find() has no sort: every order of the selected rows
Orders(S) ==
    {o \in [1 .. Cardinality(S) -> S] :
        \A i, j \in 1 .. Cardinality(S) : i # j => o[i] # o[j]}

\* variant: the date moved on by one day
CreditDateNextDay(inv, today) == AddDays(inv.lastProfitCreditDate, 1)

\* investment.lastProfitCreditDate = today
CreditDate(inv, today) == today

\* variant: no owner is passed over
OwnerSkippedNever(user) == FALSE

\* !user || user.status === 'blocked'; no handler deletes a user, so the
\* populated owner is always there
OwnerSkipped(user) == user.status = "blocked"

\* One iteration of the loop over the selected investments.  st.users and
\* st.investments are the stored documents, st.mem the user documents that
\* populate('userId') loaded when the run started, docs the investment
\* documents find() returned; save() writes the fields the run modified.
ProcessRow(st, id, docs, today, cfg) ==
    LET inv == docs[id]
        owner == inv.userId
        user == st.mem[owner]
        dailyProfit == DailyProfit(inv)
        inviter == FindByReferralCode(st.users, user.invitedBy)
        commissionDue == /\ cfg.isPromotionActive
                         /\ cfg.commissionOnDailyProfit > 0
                         /\ user.invitedBy # NoCode
        pays == commissionDue /\ InviterMayEarn(st.users, inviter)
        credited == IF pays
                    THEN [st.users EXCEPT ![inviter].balance =
                             @ + Pct(dailyProfit, cfg.commissionOnDailyProfit)]
                    ELSE st.users
        detached == FilterOut(user.activeInvestments, id)
    IN
    IF OwnerSkipped(user)
    THEN IF Matured(inv, today)
         THEN [st EXCEPT !.investments[id].status = "completed"]
         ELSE st
    ELSE IF Matured(inv, today)
    THEN [st EXCEPT !.investments[id].status = "completed",
                    !.mem[owner].activeInvestments = detached,
                    !.users[owner].activeInvestments = detached]
    ELSE [users |-> IF dailyProfit # 0
                    THEN [credited EXCEPT ![owner].balance = user.balance + dailyProfit]
                    ELSE credited,
          investments |-> [st.investments EXCEPT
                              ![id].currentProfit = inv.currentProfit + dailyProfit,
                              ![id].lastProfitCreditDate = CreditDate(inv, today)],
          mem |-> [st.mem EXCEPT ![owner].balance = user.balance + dailyProfit],
          log |-> st.log \cup
                  {[inv |-> id, day |-> today,
                    commission |-> IF pays THEN "paid"
                                   ELSE IF commissionDue /\ inviter # NoUser
                                   THEN "inviterBlocked"
                                   ELSE "none"]}]

RECURSIVE RunRows(_, _, _, _, _, _)
RunRows(order, k, st, docs, today, cfg) ==
    IF k > Len(order)
    THEN st
    ELSE RunRows(order, k + 1, ProcessRow(st, order[k], docs, today, cfg),
                 docs, today, cfg)

\* the rows a run selects
Selected(invs, today) == {i \in DOMAIN invs : DueForCredit(invs[i], today)}

\* a whole run over the selected rows in the given order, from the stored
\* documents us, invs and the configuration cfg read when the run starts
RunBatch(us, invs, log, cfg, today, order) ==
    RunRows(order, 1,
            [users |-> us, investments |-> invs, mem |-> us, log |-> log],
            invs, today, cfg)

\* POST /api/internal/process-daily-profits and the scheduler's cron tick
ProcessDailyProfitsAndCommissions ==
    \E order \in Orders(Selected(investments, Midnight(now))) :
        LET st == RunBatch(users, investments, accrualLog, adminConfig,
                           Midnight(now), order)
        IN
        /\ users' = st.users
        /\ investments' = st.investments
        /\ accrualLog' = st.log
        /\ UNCHANGED <<now, plans, adminConfig, deposits, withdrawals, calls,
                   faults>>

Next ==
    \/ AdvanceClock
    \/ ProcessDailyProfitsAndCommissions
    \/ \E u \in UserIds, p \in PlanIds : ActivateInvestment(u, p)
    \/ \E u \in UserIds, p \in PlanIds : UpgradeInvestment(u, p)
    \/ \E u \in UserIds : BlockUser(u)
    \/ \E u \in UserIds : UnblockUser(u)
    \/ \E body \in ConfigInputs : UpdateAdminConfig(body)

Spec == Init /\ [][Next]_vars

\* the ledger of the referred user: A transacts and is blocked and unblocked,
\* R takes the commissions, under the settings of a fresh installation
Transacting == {"A"}

NextLedger ==
    \/ AdvanceClock
    \/ ProcessDailyProfitsAndCommissions
    \/ \E u \in Transacting, p \in PlanIds : ActivateInvestment(u, p)
    \/ \E u \in Transacting, p \in PlanIds : UpgradeInvestment(u, p)
    \/ \E u \in Transacting : BlockUser(u)
    \/ \E u \in Transacting : UnblockUser(u)
    \/ \E u \in Transacting, amount \in DepositAmounts : RequestDeposit(u, amount)
    \/ \E d \in 1 .. MaxDeposits : ApproveDeposit(d)
    \/ \E d \in 1 .. MaxDeposits : RejectDeposit(d)
    \/ \E u \in Transacting, amount \in WithdrawalAmounts, m \in MinutesAt(now) :
          RequestWithdrawal(u, amount, m)
    \/ \E w \in 1 .. MaxWithdrawals : ApproveWithdrawal(w)
    \/ \E w \in 1 .. MaxWithdrawals : RejectWithdrawal(w)

SpecLedger == Init /\ [][NextLedger]_vars

\* the days going by: the clock moves on and the scheduler's cron tick makes
\* the daily run on each of them, whatever A and the administrator do
NextDaily ==
    \/ AdvanceClock
    \/ ProcessDailyProfitsAndCommissions
    \/ \E u \in Transacting, p \in PlanIds : ActivateInvestment(u, p)
    \/ \E u \in Transacting, p \in PlanIds : UpgradeInvestment(u, p)
    \/ \E u \in Transacting : BlockUser(u)
    \/ \E u \in Transacting : UnblockUser(u)

SpecDaily ==
    /\ Init
    /\ [][NextDaily]_vars
    /\ WF_vars(AdvanceClock)
    /\ WF_vars(ProcessDailyProfitsAndCommissions)

\* the administrator edits the plans while A buys and upgrades and the daily
\* run credits
NextPlans ==
    \/ AdvanceClock
    \/ ProcessDailyProfitsAndCommissions
    \/ \E u \in Transacting, p \in DOMAIN plans : ActivateInvestment(u, p)
    \/ \E u \in Transacting, p \in DOMAIN plans : UpgradeInvestment(u, p)
    \/ \E p \in PlanUniverse, body \in PlanCreations : CreateInvestmentPlan(p, body)
    \/ \E p \in PlanUniverse, body \in PlanEdits : UpdateInvestmentPlan(p, body)
    \/ \E p \in PlanUniverse : DeleteInvestmentPlan(p)

SpecPlans == Init /\ [][NextPlans]_vars

\* the prices an administrator sets on a plan: nothing, and more than any
\* plan costs
PriceEdits == {[minAmount |-> 0], [minAmount |-> 3000000]}

\* the investments under changing prices: the users buy and upgrade, the
\* daily run credits them, the administrator reprices the plans
NextPrices ==
    \/ AdvanceClock
    \/ ProcessDailyProfitsAndCommissions
    \/ \E u \in UserIds, p \in PlanIds : ActivateInvestment(u, p)
    \/ \E u \in UserIds, p \in PlanIds : UpgradeInvestment(u, p)
    \/ \E p \in PlanIds, body \in PriceEdits : UpdateInvestmentPlan(p, body)

SpecPrices == Init /\ [][NextPrices]_vars


\* the cashier's desk: the deposits and withdrawals of A under the
\* withdrawal windows the administrator sets
NextCashier ==
    \/ AdvanceClock
    \/ \E u \in Transacting : BlockUser(u)
    \/ \E u \in Transacting : UnblockUser(u)
    \/ \E body \in WindowInputs : UpdateAdminConfig(body)
    \/ \E u \in Transacting, amount \in DepositAmounts : RequestDeposit(u, amount)
    \/ \E d \in 1 .. MaxDeposits : ApproveDeposit(d)
    \/ \E d \in 1 .. MaxDeposits : RejectDeposit(d)
    \/ \E u \in Transacting, amount \in WithdrawalAmounts, m \in MinutesAt(now) :
          RequestWithdrawal(u, amount, m)
    \/ \E w \in 1 .. MaxWithdrawals : ApproveWithdrawal(w)
    \/ \E w \in 1 .. MaxWithdrawals : RejectWithdrawal(w)

SpecCashier == Init /\ [][NextCashier]_vars

\* ------------------------------------------- requests running side by side
\* Each handler is an async function: it gives way at every await, and the
\* requests of other clients run in between.  calls[c] is the request client
\* c has in progress, with the documents it loaded and changed in memory; a
\* handler's reads of documents that no request here writes (the plan, the
\* configuration) are taken together with the read next to them.
Clients == {"c1", "c2"}

IdleCall == [op |-> "idle", pc |-> "idle"]

Idle(c) == calls[c].pc = "idle"

Quiescent == \A c \in Clients : Idle(c)

\* the Investment documents the calls in progress are about to create
Creating == {c \in Clients : calls[c].pc = "create" /\ calls[c].op = "activateInvestment"}

\* variant: the update sent as an unvalidated increment by the difference
SavedBalanceAsIncrement(stored, loaded, local) == stored + (local - loaded)

\* user.save() of a document whose balance was loaded as `loaded` and is now
\* `local`: the modified path is $set; the schema's min: 0 refuses a negative
\* value and nothing is written
SavedBalance(stored, loaded, local) == IF local >= 0 THEN local ELSE stored

\* activateInvestment up to its first write: protect, User.findById,
\* InvestmentPlan.findById, AdminConfig.findOne and the tests on what was read
ActivateRead(c, u, p) ==
    LET plan == plans[p]
        amount == plan.minAmount
    IN
    /\ Idle(c)
    /\ UNCHANGED <<now, users, plans, investments, adminConfig, accrualLog,
                   deposits, withdrawals,
                   faults>>
    /\ IF \/ ~Protected(u)
          \/ ~plan.isActive
          \/ SlotTaken(users[u])
          \/ InvalidAmount(amount)
          \/ Insufficient(users[u].balance, amount)
       THEN UNCHANGED calls
       ELSE /\ Len(investments) + Cardinality(Creating) < MaxInvestments
            /\ calls' = [calls EXCEPT ![c] =
                   [op |-> "activateInvestment", pc |-> "create",
                    u |-> u, p |-> p,
                    loaded |-> users[u].balance,
                    balance |-> users[u].balance - amount,
                    charged |-> amount,
                    cfg |-> adminConfig,
                    inv |-> 0,
                    inviter |-> NoUser, inviterLoaded |-> 0, inviterBalance |-> 0]]

\* await Investment.create({...})
ActivateCreate(c) ==
    LET call == calls[c] IN
    /\ call.op = "activateInvestment" /\ call.pc = "create"
    /\ investments' = Append(investments,
                              NewInvestment(call.u, call.p, plans[call.p], now))
    /\ calls' = [calls EXCEPT ![c].inv = Len(investments) + 1,
                              ![c].pc = "saveUser"]
    /\ UNCHANGED <<now, users, plans, adminConfig, accrualLog, deposits, withdrawals,
                   faults>>

\* user.activeInvestments.push(investment._id); await user.save(): the balance
\* is $set, the id is $push-ed onto the stored array
ActivateSaveUser(c) ==
    LET call == calls[c]
        commission == /\ users[call.u].invitedBy # NoCode
                      /\ call.cfg.isPromotionActive
                      /\ call.cfg.commissionOnPlanActivation > 0
    IN
    /\ call.op = "activateInvestment" /\ call.pc = "saveUser"
    /\ users' = [users EXCEPT
                    ![call.u].balance = SavedBalance(@, call.loaded, call.balance),
                    ![call.u].activeInvestments =
                        IF call.balance >= 0 THEN Append(@, call.inv) ELSE @]
    /\ calls' = [calls EXCEPT ![c] =
                    IF call.balance >= 0 /\ commission
                    THEN [call EXCEPT !.pc = "findInviter"]
                    ELSE IdleCall]
    /\ UNCHANGED <<now, plans, investments, adminConfig, accrualLog,
                   deposits, withdrawals,
                   faults>>

\* const inviter = await User.findOne({ referralCode: user.invitedBy }), in
\* activateInvestment and in upgradeInvestment, and the credit made in memory
FindInviter(c) ==
    LET call == calls[c]
        inviter == FindByReferralCode(users, users[call.u].invitedBy)
    IN
    /\ call.pc = "findInviter"
    /\ calls' = [calls EXCEPT ![c] =
                    IF inviter = NoUser
                    THEN IdleCall
                    ELSE [call EXCEPT
                            !.pc = "saveInviter",
                            !.inviter = inviter,
                            !.inviterLoaded = users[inviter].balance,
                            !.inviterBalance = users[inviter].balance
                               + Pct(call.charged, call.cfg.commissionOnPlanActivation)]]
    /\ UNCHANGED <<now, users, plans, investments, adminConfig, accrualLog,
                   deposits, withdrawals,
                   faults>>

\* await inviter.save(), the last step of both handlers
SaveInviter(c) ==
    LET call == calls[c] IN
    /\ call.pc = "saveInviter"
    /\ users' = [users EXCEPT ![call.inviter].balance =
                    SavedBalance(@, call.inviterLoaded, call.inviterBalance)]
    /\ calls' = [calls EXCEPT ![c] = IdleCall]
    /\ UNCHANGED <<now, plans, investments, adminConfig, accrualLog,
                   deposits, withdrawals,
                   faults>>

\* approveDeposit up to its first write: Deposit.findById and the status test
ApproveDepositRead(c, d) ==
    /\ Idle(c)
    /\ UNCHANGED <<now, users, plans, investments, adminConfig, accrualLog,
                   deposits, withdrawals,
                   faults>>
    /\ IF d \notin DOMAIN deposits
       THEN UNCHANGED calls
       ELSE IF ~IsPending(deposits[d])
       THEN UNCHANGED calls
       ELSE calls' = [calls EXCEPT ![c] =
               [op |-> "approveDeposit", pc |-> "saveDoc", d |-> d,
                u |-> deposits[d].userId, amount |-> deposits[d].amount,
                loaded |-> 0, balance |-> 0]]

\* deposit.status = 'approved'; await deposit.save()
ApproveDepositSave(c) ==
    LET call == calls[c] IN
    /\ call.op = "approveDeposit" /\ call.pc = "saveDoc"
    /\ deposits' = [deposits EXCEPT ![call.d].status = "approved"]
    /\ calls' = [calls EXCEPT ![c].pc = "findUser"]
    /\ UNCHANGED <<now, users, plans, investments, adminConfig, accrualLog,
                   withdrawals,
                   faults>>

\* const user = await User.findById(deposit.userId); user.balance += amount
ApproveDepositFindUser(c) ==
    LET call == calls[c] IN
    /\ call.op = "approveDeposit" /\ call.pc = "findUser"
    /\ calls' = [calls EXCEPT ![c].pc = "saveUser",
                              ![c].loaded = users[call.u].balance,
                              ![c].balance = users[call.u].balance + call.amount]
    /\ UNCHANGED <<now, users, plans, investments, adminConfig, accrualLog,
                   deposits, withdrawals,
                   faults>>

\* await user.save()
ApproveDepositSaveUser(c) ==
    LET call == calls[c] IN
    /\ call.op = "approveDeposit" /\ call.pc = "saveUser"
    /\ users' = [users EXCEPT ![call.u].balance =
                    SavedBalance(@, call.loaded, call.balance)]
    /\ calls' = [calls EXCEPT ![c] = IdleCall]
    /\ UNCHANGED <<now, plans, investments, adminConfig, accrualLog,
                   deposits, withdrawals,
                   faults>>

\* rejectDeposit up to its write
RejectDepositRead(c, d) ==
    /\ Idle(c)
    /\ UNCHANGED <<now, users, plans, investments, adminConfig, accrualLog,
                   deposits, withdrawals,
                   faults>>
    /\ IF d \notin DOMAIN deposits
       THEN UNCHANGED calls
       ELSE IF ~IsPending(deposits[d])
       THEN UNCHANGED calls
       ELSE calls' = [calls EXCEPT ![c] =
               [op |-> "rejectDeposit", pc |-> "saveDoc", d |-> d]]

\* deposit.status = 'rejected'; await deposit.save(); the user is then read
\* for the log line only
RejectDepositSave(c) ==
    LET call == calls[c] IN
    /\ call.op = "rejectDeposit" /\ call.pc = "saveDoc"
    /\ deposits' = [deposits EXCEPT ![call.d].status = "rejected"]
    /\ calls' = [calls EXCEPT ![c] = IdleCall]
    /\ UNCHANGED <<now, users, plans, investments, adminConfig, accrualLog,
                   withdrawals,
                   faults>>

\* upgradeInvestment up to its second read: protect, User.findById,
\* InvestmentPlan.findById and the test of the slot
UpgradeRead(c, u, p) ==
    /\ Idle(c)
    /\ UNCHANGED <<now, users, plans, investments, adminConfig, accrualLog,
                   deposits, withdrawals,
                   faults>>
    /\ IF \/ ~Protected(u)
          \/ ~plans[p].isActive
          \/ Len(users[u].activeInvestments) = 0
       THEN UNCHANGED calls
       ELSE calls' = [calls EXCEPT ![c] =
               [op |-> "upgradeInvestment", pc |-> "findInvestment",
                u |-> u, p |-> p,
                id |-> users[u].activeInvestments[1],
                loaded |-> users[u].balance,
                balance |-> users[u].balance,
                charged |-> 0, t |-> now,
                cfg |-> adminConfig,
                inviter |-> NoUser, inviterLoaded |-> 0, inviterBalance |-> 0]]

\* const activeInvestment = await Investment.findById(...), the tests of the
\* price and of the balance, and the changes made in memory
UpgradeFindInvestment(c) ==
    LET call == calls[c]
        activeInvestment == investments[call.id]
        newAmount == plans[call.p].minAmount
        priceDifference == newAmount - activeInvestment.investedAmount
    IN
    /\ call.op = "upgradeInvestment" /\ call.pc = "findInvestment"
    /\ calls' = [calls EXCEPT ![c] =
                    IF \/ ~PriceIsHigher(newAmount, activeInvestment.investedAmount)
                       \/ Insufficient(call.loaded, priceDifference)
                    THEN IdleCall
                    ELSE [call EXCEPT !.pc = "saveInvestment",
                                      !.balance = call.loaded - priceDifference,
                                      !.charged = priceDifference,
                                      !.t = now]]
    /\ UNCHANGED <<now, users, plans, investments, adminConfig, accrualLog,
                   deposits, withdrawals,
                   faults>>

\* await activeInvestment.save(): the paths the handler assigned are $set
UpgradeSaveInvestment(c) ==
    LET call == calls[c] IN
    /\ call.op = "upgradeInvestment" /\ call.pc = "saveInvestment"
    /\ investments' = [investments EXCEPT ![call.id] =
                          UpgradedInvestment(@, call.p, plans[call.p], call.t)]
    /\ calls' = [calls EXCEPT ![c].pc = "saveUser"]
    /\ UNCHANGED <<now, users, plans, adminConfig, accrualLog, deposits, withdrawals,
                   faults>>

\* await user.save(), then AdminConfig.findOne() and the test for a commission
UpgradeSaveUser(c) ==
    LET call == calls[c]
        commission == /\ users[call.u].invitedBy # NoCode
                      /\ adminConfig.isPromotionActive
                      /\ adminConfig.commissionOnPlanActivation > 0
    IN
    /\ call.op = "upgradeInvestment" /\ call.pc = "saveUser"
    /\ users' = [users EXCEPT
                    ![call.u].balance = SavedBalance(@, call.loaded, call.balance)]
    /\ calls' = [calls EXCEPT ![c] =
                    IF /\ call.balance >= 0
                       /\ investments[call.id].planId \in DOMAIN plans
                       /\ commission
                    THEN [call EXCEPT !.pc = "findInviter", !.cfg = adminConfig]
                    ELSE IdleCall]
    /\ UNCHANGED <<now, plans, investments, adminConfig, accrualLog,
                   deposits, withdrawals,
                   faults>>

\* the Withdrawal documents the calls in progress are about to create
CreatingWithdrawal ==
    {c \in Clients : calls[c].pc = "create" /\ calls[c].op = "requestWithdrawal"}

\* requestWithdrawal up to its first write: protect, User.findById,
\* AdminConfig.findOne and the tests
WithdrawRead(c, u, amount, m) ==
    /\ Idle(c)
    /\ UNCHANGED <<now, users, plans, investments, adminConfig, accrualLog,
                   deposits, withdrawals,
                   faults>>
    /\ IF \/ ~Protected(u)
          \/ amount <= 0
          \/ ~IsWithdrawalTimeAllowed(adminConfig.withdrawalStartTime,
                                      adminConfig.withdrawalEndTime, m)
          \/ amount < adminConfig.minWithdrawalAmount
          \/ amount > adminConfig.maxWithdrawalAmount
          \/ Insufficient(users[u].balance, amount)
       THEN UNCHANGED calls
       ELSE /\ Len(withdrawals) + Cardinality(CreatingWithdrawal) < MaxWithdrawals
            /\ calls' = [calls EXCEPT ![c] =
                   [op |-> "requestWithdrawal", pc |-> "create",
                    u |-> u, amount |-> amount, m |-> m,
                    loaded |-> users[u].balance,
                    balance |-> users[u].balance - amount]]

\* await Withdrawal.create({...})
WithdrawCreate(c) ==
    LET call == calls[c] IN
    /\ call.op = "requestWithdrawal" /\ call.pc = "create"
    /\ withdrawals' = Append(withdrawals,
           [userId |-> call.u, amount |-> call.amount, status |-> "pending",
            requestDate |-> call.m])
    /\ calls' = [calls EXCEPT ![c].pc = "saveUser"]
    /\ UNCHANGED <<now, users, plans, investments, adminConfig, accrualLog, deposits,
                   faults>>

\* await user.save()
WithdrawSaveUser(c) ==
    LET call == calls[c] IN
    /\ call.op = "requestWithdrawal" /\ call.pc = "saveUser"
    /\ users' = [users EXCEPT ![call.u].balance =
                    SavedBalance(@, call.loaded, call.balance)]
    /\ calls' = [calls EXCEPT ![c] = IdleCall]
    /\ UNCHANGED <<now, plans, investments, adminConfig, accrualLog,
                   deposits, withdrawals,
                   faults>>

\* approveWithdrawal up to its write
ApproveWithdrawalRead(c, w) ==
    /\ Idle(c)
    /\ UNCHANGED <<now, users, plans, investments, adminConfig, accrualLog,
                   deposits, withdrawals,
                   faults>>
    /\ IF w \notin DOMAIN withdrawals
       THEN UNCHANGED calls
       ELSE IF ~IsPending(withdrawals[w])
       THEN UNCHANGED calls
       ELSE calls' = [calls EXCEPT ![c] =
               [op |-> "approveWithdrawal", pc |-> "saveDoc", w |-> w]]

\* withdrawal.status = 'approved'; await withdrawal.save()
ApproveWithdrawalSave(c) ==
    LET call == calls[c] IN
    /\ call.op = "approveWithdrawal" /\ call.pc = "saveDoc"
    /\ withdrawals' = [withdrawals EXCEPT ![call.w].status = "approved"]
    /\ calls' = [calls EXCEPT ![c] = IdleCall]
    /\ UNCHANGED <<now, users, plans, investments, adminConfig, accrualLog, deposits,
                   faults>>

\* rejectWithdrawal up to its first write
RejectWithdrawalRead(c, w) ==
    /\ Idle(c)
    /\ UNCHANGED <<now, users, plans, investments, adminConfig, accrualLog,
                   deposits, withdrawals,
                   faults>>
    /\ IF w \notin DOMAIN withdrawals
       THEN UNCHANGED calls
       ELSE IF ~IsPending(withdrawals[w])
       THEN UNCHANGED calls
       ELSE calls' = [calls EXCEPT ![c] =
               [op |-> "rejectWithdrawal", pc |-> "saveDoc", w |-> w,
                u |-> withdrawals[w].userId, amount |-> withdrawals[w].amount,
                loaded |-> 0, balance |-> 0]]

\* withdrawal.status = 'rejected'; await withdrawal.save()
RejectWithdrawalSave(c) ==
    LET call == calls[c] IN
    /\ call.op = "rejectWithdrawal" /\ call.pc = "saveDoc"
    /\ withdrawals' = [withdrawals EXCEPT ![call.w].status = "rejected"]
    /\ calls' = [calls EXCEPT ![c].pc = "findUser"]
    /\ UNCHANGED <<now, users, plans, investments, adminConfig, accrualLog, deposits,
                   faults>>

\* const user = await User.findById(withdrawal.userId); user.balance += amount
RejectWithdrawalFindUser(c) ==
    LET call == calls[c] IN
    /\ call.op = "rejectWithdrawal" /\ call.pc = "findUser"
    /\ calls' = [calls EXCEPT
                    ![c].pc = "saveUser",
                    ![c].loaded = users[call.u].balance,
                    ![c].balance = Refunded(users[call.u].balance, call.amount)]
    /\ UNCHANGED <<now, users, plans, investments, adminConfig, accrualLog,
                   deposits, withdrawals,
                   faults>>

\* await user.save()
RejectWithdrawalSaveUser(c) ==
    LET call == calls[c] IN
    /\ call.op = "rejectWithdrawal" /\ call.pc = "saveUser"
    /\ users' = [users EXCEPT ![call.u].balance =
                    SavedBalance(@, call.loaded, call.balance)]
    /\ calls' = [calls EXCEPT ![c] = IdleCall]
    /\ UNCHANGED <<now, plans, investments, adminConfig, accrualLog,
                   deposits, withdrawals,
                   faults>>

\* the run moves on to its next row, or ends after the last one
NextRow(call) ==
    IF call.k = Len(call.order)
    THEN IdleCall
    ELSE [call EXCEPT !.k = call.k + 1, !.pc = "row"]

\* processDailyProfitsAndCommissions up to its loop: Investment.find with
\* populate('userId') and AdminConfig.findOne
BatchFind(c) ==
    /\ Idle(c)
    /\ UNCHANGED <<now, users, plans, investments, adminConfig, accrualLog,
                   deposits, withdrawals,
                   faults>>
    /\ \E order \in Orders(Selected(investments, Midnight(now))) :
          IF Len(order) = 0
          THEN UNCHANGED calls
          ELSE calls' = [calls EXCEPT ![c] =
                  [op |-> "processDailyProfitsAndCommissions", pc |-> "row",
                   order |-> order, k |-> 1,
                   mem |-> users, docs |-> investments,
                   cfg |-> adminConfig, today |-> Midnight(now),
                   loaded |-> 0, commission |-> "none",
                   inviter |-> NoUser, inviterLoaded |-> 0, inviterBalance |-> 0]]

\* one row of the loop up to its first write: the tests of the owner and of
\* the end date, the profit added in memory and User.findOne of the inviter
BatchRow(c) ==
    LET call == calls[c]
        id == call.order[call.k]
        inv == call.docs[id]
        owner == inv.userId
        user == call.mem[owner]
        dailyProfit == DailyProfit(inv)
        inviter == FindByReferralCode(users, user.invitedBy)
        commissionDue == /\ call.cfg.isPromotionActive
                         /\ call.cfg.commissionOnDailyProfit > 0
                         /\ user.invitedBy # NoCode
        pays == commissionDue /\ InviterMayEarn(users, inviter)
        accrued == [call EXCEPT
                      !.docs[id].currentProfit = inv.currentProfit + dailyProfit,
                      !.mem[owner].balance = user.balance + dailyProfit,
                      !.loaded = user.balance]
    IN
    /\ call.op = "processDailyProfitsAndCommissions" /\ call.pc = "row"
    /\ calls' = [calls EXCEPT ![c] =
          IF OwnerSkipped(user)
          THEN IF Matured(inv, call.today)
               THEN [call EXCEPT !.pc = "rowCompleteBlocked"]
               ELSE NextRow(call)
          ELSE IF Matured(inv, call.today)
          THEN [call EXCEPT !.pc = "rowComplete"]
          ELSE IF pays
          THEN [accrued EXCEPT
                  !.pc = "rowSaveInviter",
                  !.commission = "paid",
                  !.inviter = inviter,
                  !.inviterLoaded = users[inviter].balance,
                  !.inviterBalance = users[inviter].balance
                      + Pct(dailyProfit, call.cfg.commissionOnDailyProfit)]
          ELSE [accrued EXCEPT
                  !.pc = "rowSaveInvestment",
                  !.commission = IF commissionDue /\ inviter # NoUser
                                 THEN "inviterBlocked" ELSE "none"]]
    /\ UNCHANGED <<now, users, plans, investments, adminConfig, accrualLog,
                   deposits, withdrawals,
                   faults>>

\* await inviter.save()
BatchSaveInviter(c) ==
    LET call == calls[c] IN
    /\ call.op = "processDailyProfitsAndCommissions" /\ call.pc = "rowSaveInviter"
    /\ users' = [users EXCEPT ![call.inviter].balance =
                    SavedBalance(@, call.inviterLoaded, call.inviterBalance)]
    /\ calls' = [calls EXCEPT ![c].pc = "rowSaveInvestment"]
    /\ UNCHANGED <<now, plans, investments, adminConfig, accrualLog,
                   deposits, withdrawals,
                   faults>>

\* investment.lastProfitCreditDate = today; await investment.save()
BatchSaveInvestment(c) ==
    LET call == calls[c]
        id == call.order[call.k]
    IN
    /\ call.op = "processDailyProfitsAndCommissions" /\ call.pc = "rowSaveInvestment"
    /\ investments' = [investments EXCEPT
                          ![id].currentProfit = call.docs[id].currentProfit,
                          ![id].lastProfitCreditDate =
                              CreditDate(call.docs[id], call.today)]
    /\ accrualLog' = accrualLog \cup
                     {[inv |-> id, day |-> call.today, commission |-> call.commission]}
    /\ calls' = [calls EXCEPT ![c] =
                    IF DailyProfit(call.docs[id]) # 0
                    THEN [call EXCEPT !.pc = "rowSaveUser"]
                    ELSE NextRow(call)]
    /\ UNCHANGED <<now, users, plans, adminConfig, deposits, withdrawals,
                   faults>>

\* await user.save() of the populated owner
BatchSaveUser(c) ==
    LET call == calls[c]
        owner == call.docs[call.order[call.k]].userId
    IN
    /\ call.op = "processDailyProfitsAndCommissions" /\ call.pc = "rowSaveUser"
    /\ users' = [users EXCEPT ![owner].balance =
                    SavedBalance(@, call.loaded, call.mem[owner].balance)]
    /\ calls' = [calls EXCEPT ![c] = NextRow(call)]
    /\ UNCHANGED <<now, plans, investments, adminConfig, accrualLog,
                   deposits, withdrawals,
                   faults>>

\* investment.status = 'completed'; await investment.save(), the owner blocked
BatchCompleteBlocked(c) ==
    LET call == calls[c] IN
    /\ call.op = "processDailyProfitsAndCommissions" /\ call.pc = "rowCompleteBlocked"
    /\ investments' = [investments EXCEPT ![call.order[call.k]].status = "completed"]
    /\ calls' = [calls EXCEPT ![c] = NextRow(call)]
    /\ UNCHANGED <<now, users, plans, adminConfig, accrualLog, deposits, withdrawals,
                   faults>>

\* investment.status = 'completed'; await investment.save(), and the id
\* filtered out of the owner's list in memory
BatchComplete(c) ==
    LET call == calls[c]
        id == call.order[call.k]
        owner == call.docs[id].userId
    IN
    /\ call.op = "processDailyProfitsAndCommissions" /\ call.pc = "rowComplete"
    /\ investments' = [investments EXCEPT ![id].status = "completed"]
    /\ calls' = [calls EXCEPT
                    ![c].pc = "rowDetach",
                    ![c].mem[owner].activeInvestments = FilterOut(@, id)]
    /\ UNCHANGED <<now, users, plans, adminConfig, accrualLog, deposits, withdrawals,
                   faults>>

\* await user.save(): the filtered list is $set
BatchDetach(c) ==
    LET call == calls[c]
        owner == call.docs[call.order[call.k]].userId
    IN
    /\ call.op = "processDailyProfitsAndCommissions" /\ call.pc = "rowDetach"
    /\ users' = [users EXCEPT ![owner].activeInvestments =
                    call.mem[owner].activeInvestments]
    /\ calls' = [calls EXCEPT ![c] = NextRow(call)]
    /\ UNCHANGED <<now, plans, investments, adminConfig, accrualLog,
                   deposits, withdrawals,
                   faults>>

\* the store of a fresh installation with every client idle
InitRace ==
    /\ now \in {0, 1}
    /\ users = InitUsers
    /\ plans = InitPlans
    /\ investments = <<>>
    /\ adminConfig = DefaultConfig
    /\ accrualLog = {}
    /\ deposits = <<>>
    /\ withdrawals = <<>>
    /\ calls = [c \in Clients |-> IdleCall]
    /\ faults = 0

\* two clients send activateInvestment requests in A's name
NextActivateRace ==
    \/ \E c \in Clients, u \in Transacting, p \in PlanIds : ActivateRead(c, u, p)
    \/ \E c \in Clients : ActivateCreate(c)
    \/ \E c \in Clients : ActivateSaveUser(c)
    \/ \E c \in Clients : FindInviter(c)
    \/ \E c \in Clients : SaveInviter(c)

SpecActivateRace == InitRace /\ [][NextActivateRace]_vars

\* users ask for deposits and two administrators approve and reject them
NextDepositRace ==
    \/ \E u \in UserIds, amount \in DepositAmounts : RequestDeposit(u, amount)
    \/ \E c \in Clients, d \in 1 .. MaxDeposits : ApproveDepositRead(c, d)
    \/ \E c \in Clients : ApproveDepositSave(c)
    \/ \E c \in Clients : ApproveDepositFindUser(c)
    \/ \E c \in Clients : ApproveDepositSaveUser(c)
    \/ \E c \in Clients, d \in 1 .. MaxDeposits : RejectDepositRead(c, d)
    \/ \E c \in Clients : RejectDepositSave(c)

SpecDepositRace == InitRace /\ [][NextDepositRace]_vars

\* the users after A bought the basic plan and R took the commission
BoughtBasic ==
    [InitUsers EXCEPT
        !["A"].balance = @ - InitPlans["basic"].minAmount,
        !["A"].activeInvestments = <<1>>,
        !["R"].balance = @ + Pct(InitPlans["basic"].minAmount,
                                 DefaultActivationCommission)]

\* the store on the day the plan bought at instant 1 still earns and on the
\* day it has run out, no daily run made yet, A blocked in the meantime or not
InitRaceLater ==
    /\ now \in {AddDays(1, DefaultDurationDays), AddDays(1, DefaultDurationDays + 1)}
    /\ users \in {BoughtBasic, [BoughtBasic EXCEPT !["A"].status = "blocked"]}
    /\ plans = InitPlans
    /\ investments = <<NewInvestment("A", "basic", InitPlans["basic"], 1)>>
    /\ adminConfig = DefaultConfig
    /\ accrualLog = {}
    /\ deposits = <<>>
    /\ withdrawals = <<>>
    /\ calls = [c \in Clients |-> IdleCall]
    /\ faults = 0

\* the minute read by a withdrawal request: midnight at the first instant of
\* a day, the opening of the default window at the later one
RaceMinutes(t) == MinutesAt(t) \cap {0, 480}

\* every handler that touches a balance, two requests at a time: A's
\* requests (one withdrawal among them), the administrator's decisions and
\* the daily run
NextRace ==
    \/ \E c \in Clients, u \in Transacting, p \in PlanIds : ActivateRead(c, u, p)
    \/ \E c \in Clients : ActivateCreate(c)
    \/ \E c \in Clients : ActivateSaveUser(c)
    \/ \E c \in Clients, u \in Transacting, p \in PlanIds : UpgradeRead(c, u, p)
    \/ \E c \in Clients : UpgradeFindInvestment(c)
    \/ \E c \in Clients : UpgradeSaveInvestment(c)
    \/ \E c \in Clients : UpgradeSaveUser(c)
    \/ \E c \in Clients : FindInviter(c)
    \/ \E c \in Clients : SaveInviter(c)
    \/ \E u \in Transacting, amount \in DepositAmounts : RequestDeposit(u, amount)
    \/ \E c \in Clients, d \in 1 .. MaxDeposits : ApproveDepositRead(c, d)
    \/ \E c \in Clients : ApproveDepositSave(c)
    \/ \E c \in Clients : ApproveDepositFindUser(c)
    \/ \E c \in Clients : ApproveDepositSaveUser(c)
    \/ \E c \in Clients, d \in 1 .. MaxDeposits : RejectDepositRead(c, d)
    \/ \E c \in Clients : RejectDepositSave(c)
    \/ \E c \in Clients, u \in Transacting, amount \in WithdrawalAmounts,
          m \in RaceMinutes(now) :
          /\ withdrawals = <<>> /\ CreatingWithdrawal = {}
          /\ WithdrawRead(c, u, amount, m)
    \/ \E c \in Clients : WithdrawCreate(c)
    \/ \E c \in Clients : WithdrawSaveUser(c)
    \/ \E c \in Clients, w \in 1 .. MaxWithdrawals : ApproveWithdrawalRead(c, w)
    \/ \E c \in Clients : ApproveWithdrawalSave(c)
    \/ \E c \in Clients, w \in 1 .. MaxWithdrawals : RejectWithdrawalRead(c, w)
    \/ \E c \in Clients : RejectWithdrawalSave(c)
    \/ \E c \in Clients : RejectWithdrawalFindUser(c)
    \/ \E c \in Clients : RejectWithdrawalSaveUser(c)
    \/ \E c \in Clients : BatchFind(c)
    \/ \E c \in Clients : BatchRow(c)
    \/ \E c \in Clients : BatchSaveInviter(c)
    \/ \E c \in Clients : BatchSaveInvestment(c)
    \/ \E c \in Clients : BatchSaveUser(c)
    \/ \E c \in Clients : BatchCompleteBlocked(c)
    \/ \E c \in Clients : BatchComplete(c)
    \/ \E c \in Clients : BatchDetach(c)

SpecRace == (InitRace \/ InitRaceLater) /\ [][NextRace]_vars

\* the withdrawal desk, two requests at a time: the requests of the users
\* and the administrator's decisions on them
NextWithdrawalRace ==
    \/ \E c \in Clients, u \in UserIds, amount \in WithdrawalAmounts,
          m \in RaceMinutes(now) : WithdrawRead(c, u, amount, m)
    \/ \E c \in Clients : WithdrawCreate(c)
    \/ \E c \in Clients : WithdrawSaveUser(c)
    \/ \E c \in Clients, w \in 1 .. MaxWithdrawals : ApproveWithdrawalRead(c, w)
    \/ \E c \in Clients : ApproveWithdrawalSave(c)
    \/ \E c \in Clients, w \in 1 .. MaxWithdrawals : RejectWithdrawalRead(c, w)
    \/ \E c \in Clients : RejectWithdrawalSave(c)
    \/ \E c \in Clients : RejectWithdrawalFindUser(c)
    \/ \E c \in Clients : RejectWithdrawalSaveUser(c)

SpecWithdrawalRace == InitRace /\ [][NextWithdrawalRace]_vars

\* one administrator approving and another rejecting at the same time; the
\* users' requests come in between the rejections
Approver == "c1"
Rejecter == "c2"

NextDecisionRace ==
    \/ \E u \in UserIds, amount \in WithdrawalAmounts, m \in RaceMinutes(now) :
          WithdrawRead(Rejecter, u, amount, m)
    \/ WithdrawCreate(Rejecter)
    \/ WithdrawSaveUser(Rejecter)
    \/ \E w \in 1 .. MaxWithdrawals : ApproveWithdrawalRead(Approver, w)
    \/ ApproveWithdrawalSave(Approver)
    \/ \E w \in 1 .. MaxWithdrawals : RejectWithdrawalRead(Rejecter, w)
    \/ RejectWithdrawalSave(Rejecter)
    \/ RejectWithdrawalFindUser(Rejecter)
    \/ RejectWithdrawalSaveUser(Rejecter)

SpecDecisionRace == InitRace /\ [][NextDecisionRace]_vars

\* ------------------------------------------------- persistence that fails
\* An awaited write may reject (the connection drops, the document fails its
\* validation).  The rejection is thrown at the await; each handler has one
\* try/catch around its whole body, so the call ends there with a 500 and
\* the writes it had already made stay.
Worker == "c1"

\* the awaits of a row of the daily run that write
BatchWrites ==
    {"rowSaveInviter", "rowSaveInvestment", "rowSaveUser",
     "rowComplete", "rowCompleteBlocked", "rowDetach"}

\* a write of the daily run rejects: the throw leaves the for loop for the
\* catch at the end of the function
BatchFails(c) ==
    /\ calls[c].op = "processDailyProfitsAndCommissions"
    /\ calls[c].pc \in BatchWrites
    /\ faults < MaxFaults
    /\ faults' = faults + 1
    /\ calls' = [calls EXCEPT ![c] = IdleCall]
    /\ UNCHANGED <<now, users, plans, investments, adminConfig, accrualLog,
                   deposits, withdrawals>>

\* a write of activateInvestment rejects
ActivateFails(c) ==
    /\ calls[c].op = "activateInvestment"
    /\ calls[c].pc \in {"create", "saveUser", "saveInviter"}
    /\ faults < MaxFaults
    /\ faults' = faults + 1
    /\ calls' = [calls EXCEPT ![c] = IdleCall]
    /\ UNCHANGED <<now, users, plans, investments, adminConfig, accrualLog,
                   deposits, withdrawals>>

\* a write of upgradeInvestment rejects
UpgradeFails(c) ==
    /\ calls[c].op = "upgradeInvestment"
    /\ calls[c].pc \in {"saveInvestment", "saveUser", "saveInviter"}
    /\ faults < MaxFaults
    /\ faults' = faults + 1
    /\ calls' = [calls EXCEPT ![c] = IdleCall]
    /\ UNCHANGED <<now, users, plans, investments, adminConfig, accrualLog,
                   deposits, withdrawals>>

\* one request at a time; the writes of the daily run may fail
NextBatchFaults ==
    \/ AdvanceClock
    \/ \E u \in UserIds, p \in PlanIds : ActivateRead(Worker, u, p)
    \/ ActivateCreate(Worker)
    \/ ActivateSaveUser(Worker)
    \/ FindInviter(Worker)
    \/ SaveInviter(Worker)
    \/ BatchFind(Worker)
    \/ BatchRow(Worker)
    \/ BatchSaveInviter(Worker)
    \/ BatchSaveInvestment(Worker)
    \/ BatchSaveUser(Worker)
    \/ BatchCompleteBlocked(Worker)
    \/ BatchComplete(Worker)
    \/ BatchDetach(Worker)
    \/ BatchFails(Worker)
    \/ \E u \in Transacting : BlockUser(u)
    \/ \E u \in Transacting : UnblockUser(u)

SpecBatchFaults == InitRace /\ [][NextBatchFaults]_vars

\* one request at a time; the writes of an activation or an upgrade may fail
NextRequestFaults ==
    \/ AdvanceClock
    \/ \E u \in Transacting, p \in PlanIds : ActivateRead(Worker, u, p)
    \/ ActivateCreate(Worker)
    \/ ActivateSaveUser(Worker)
    \/ \E u \in Transacting, p \in PlanIds : UpgradeRead(Worker, u, p)
    \/ UpgradeFindInvestment(Worker)
    \/ UpgradeSaveInvestment(Worker)
    \/ UpgradeSaveUser(Worker)
    \/ FindInviter(Worker)
    \/ SaveInviter(Worker)
    \/ ActivateFails(Worker)
    \/ UpgradeFails(Worker)

SpecRequestFaults == InitRace /\ [][NextRequestFaults]_vars

\* the cron tick of the scheduler and POST /internal/process-daily-profits
\* both call processDailyProfitsAndCommissions; nothing keeps a second call
\* from starting while the first is at an await
NextBatchRace ==
    \/ AdvanceClock
    \/ \E c \in Clients : BatchFind(c)
    \/ \E c \in Clients : BatchRow(c)
    \/ \E c \in Clients : BatchSaveInviter(c)
    \/ \E c \in Clients : BatchSaveInvestment(c)
    \/ \E c \in Clients : BatchSaveUser(c)
    \/ \E c \in Clients : BatchCompleteBlocked(c)
    \/ \E c \in Clients : BatchComplete(c)
    \/ \E c \in Clients : BatchDetach(c)

SpecBatchRace == InitRaceLater /\ [][NextBatchRace]_vars

\* the daily run on one side, the requests that move a balance on the other
Batcher == "c1"
Requester == "c2"

\* one daily run and one request at a time, side by side
NextBatchAndRequest ==
    \/ \E u \in Transacting, amount \in DepositAmounts : RequestDeposit(u, amount)
    \/ BatchFind(Batcher)
    \/ BatchRow(Batcher)
    \/ BatchSaveInviter(Batcher)
    \/ BatchSaveInvestment(Batcher)
    \/ BatchSaveUser(Batcher)
    \/ BatchCompleteBlocked(Batcher)
    \/ BatchComplete(Batcher)
    \/ BatchDetach(Batcher)
    \/ \E u \in Transacting, p \in PlanIds : ActivateRead(Requester, u, p)
    \/ ActivateCreate(Requester)
    \/ ActivateSaveUser(Requester)
    \/ \E u \in Transacting, p \in PlanIds : UpgradeRead(Requester, u, p)
    \/ UpgradeFindInvestment(Requester)
    \/ UpgradeSaveInvestment(Requester)
    \/ UpgradeSaveUser(Requester)
    \/ FindInviter(Requester)
    \/ SaveInviter(Requester)
    \/ \E d \in 1 .. MaxDeposits : ApproveDepositRead(Requester, d)
    \/ ApproveDepositSave(Requester)
    \/ ApproveDepositFindUser(Requester)
    \/ ApproveDepositSaveUser(Requester)
    \/ \E u \in Transacting, amount \in WithdrawalAmounts, m \in RaceMinutes(now) :
          WithdrawRead(Requester, u, amount, m)
    \/ WithdrawCreate(Requester)
    \/ WithdrawSaveUser(Requester)
    \/ \E w \in 1 .. MaxWithdrawals : RejectWithdrawalRead(Requester, w)
    \/ RejectWithdrawalSave(Requester)
    \/ RejectWithdrawalFindUser(Requester)
    \/ RejectWithdrawalSaveUser(Requester)

SpecBatchAndRequest == InitRaceLater /\ [][NextBatchAndRequest]_vars

\* ------------------------------------------------------------ the accounts
\* the phone number and the device fingerprint createInitialAdmin gives the
\* first administrator
InitialAdminPhone == "848441231"
InitialAdminFingerprint == "initialAdminFingerprint"

\* the phone numbers and the device fingerprints the requests carry
Phones == {"840000001", "840000002"}
VisitorIds == {"deviceA", "deviceB", InitialAdminFingerprint}

\* the visitorId createAdmin makes up: `admin_${Date.now()}`
AdminVisitorId(t) == "admin_" \o ToString(t)

\* User.create(...) with the schema defaults: balance 0, status active; the
\* referral code is generated until it is unique, here the phone number
NewAccount(phone, visitorId, invitedBy, isAdmin) ==
    [balance |-> 0,
     status |-> "active",
     isAdmin |-> isAdmin,
     referralCode |-> phone,
     invitedBy |-> invitedBy,
     activeInvestments |-> <<>>,
     visitorId |-> visitorId]

\* the store with one more account
WithAccount(us, phone, account) ==
    [u \in DOMAIN us \cup {phone} |-> IF u = phone THEN account ELSE us[u]]

\* the store after createInitialAdmin at the start of the server
InitAccounts ==
    /\ now \in {0, 1}
    /\ users = WithAccount(<<>>, InitialAdminPhone,
                           NewAccount(InitialAdminPhone, InitialAdminFingerprint,
                                      NoCode, TRUE))
    /\ plans = InitPlans
    /\ investments = <<>>
    /\ adminConfig = DefaultConfig
    /\ accrualLog = {}
    /\ deposits = <<>>
    /\ withdrawals = <<>>
    /\ calls = <<>>
    /\ faults = 0

\* variant: the administrators are left out of the automatic blocking
SharesDeviceNotAdmin(user, visitorId) ==
    user.visitorId = visitorId /\ ~user.isAdmin

\* User.find({ visitorId })
SharesDevice(user, visitorId) == user.visitorId = visitorId

\* POST /api/register: every active account found with the visitorId is
\* blocked and the request refused; otherwise a new phone number gets an
\* account, with the inviter's code when the invite code is one
RegisterUser(phone, visitorId, inviteCode) ==
    LET same == {u \in DOMAIN users : SharesDevice(users[u], visitorId)}
        invitingUser == {u \in DOMAIN users : users[u].referralCode = inviteCode}
        invitedBy == IF /\ inviteCode # NoCode
                        /\ \E u \in invitingUser : users[u].visitorId # visitorId
                     THEN inviteCode
                     ELSE NoCode
    IN
    /\ IF same # {}
       THEN users' = [u \in DOMAIN users |->
                         IF u \in same /\ users[u].status = "active"
                         THEN [users[u] EXCEPT !.status = "blocked"]
                         ELSE users[u]]
       ELSE IF phone \in DOMAIN users
       THEN UNCHANGED users
       ELSE users' = WithAccount(users, phone,
                                 NewAccount(phone, visitorId, invitedBy, FALSE))
    /\ UNCHANGED <<now, plans, investments, adminConfig, accrualLog,
                   deposits, withdrawals, calls, faults>>

\* POST /api/admin/users/create-admin; the unique index on visitorId refuses
\* a second administrator made in the same instant
CreateAdmin(phone) ==
    /\ IF \/ phone \in DOMAIN users
          \/ \E u \in DOMAIN users : users[u].visitorId = AdminVisitorId(now)
       THEN UNCHANGED users
       ELSE users' = WithAccount(users, phone,
                                 NewAccount(phone, AdminVisitorId(now), NoCode, TRUE))
    /\ UNCHANGED <<now, plans, investments, adminConfig, accrualLog,
                   deposits, withdrawals, calls, faults>>

NextAccounts ==
    \/ AdvanceClock
    \/ \E phone \in Phones, visitorId \in VisitorIds,
          inviteCode \in Phones \cup {InitialAdminPhone, NoCode} :
          RegisterUser(phone, visitorId, inviteCode)
    \/ \E phone \in Phones : CreateAdmin(phone)
    \/ \E u \in DOMAIN users : BlockUser(u)
    \/ \E u \in DOMAIN users : UnblockUser(u)

SpecAccounts == InitAccounts /\ [][NextAccounts]_vars

\* ================================================================ properties
Today == Midnight(now)

\* row i is selected by a run started now and is credited profit by it:
\* owner active, end date after today
Accrues(i) ==
    /\ i \in Selected(investments, Today)
    /\ users[investments[i].userId].status = "active"
    /\ investments[i].endDate > Today

\* the profit the spec gives for row i: investedAmount * dailyRate
ProfitOf(i) == Pct(investments[i].investedAmount, investments[i].dailyProfitRate)

\* the accrual log lines written for investment i
LogOf(log, i) == {e \in log : e.inv = i}

\* the stored state is left as it is by every run started at this instant
BatchFixedPoint ==
    \A o \in Orders(Selected(investments, Today)) :
        LET st == RunBatch(users, investments, accrualLog, adminConfig, Today, o)
        IN st.users = users /\ st.investments = investments

\* C1: a second run of the batch on the same day, with no operation between
\* the two runs, changes no user balance and no investment (accumulated
\* profit, last accrual date, status).
C1_BatchIdempotent ==
    [][ProcessDailyProfitsAndCommissions => BatchFixedPoint']_vars

\* C1 witness: a run has credited profit today to both investors, and the
\* referrer was paid a commission in it
C1_Witness ==
    /\ Len(investments) = 2
    /\ \A i \in DOMAIN investments :
          /\ investments[i].lastProfitCreditDate = Today
          /\ investments[i].currentProfit > 0
    /\ \E e \in accrualLog : e.day = Today /\ e.commission = "paid"

\* C2: a run that processes an investment with endDate <= today marks it
\* completed and credits no profit for it in that run; once an investment is
\* completed it stays completed, its accumulated profit never changes again
\* and no further profit credit is logged for it, whatever operation follows.
C2_MaturityBeforeProfit ==
    [][/\ ProcessDailyProfitsAndCommissions =>
            \A i \in Selected(investments, Today) :
                investments[i].endDate <= Today =>
                    /\ investments'[i].status = "completed"
                    /\ investments'[i].currentProfit = investments[i].currentProfit
                    /\ LogOf(accrualLog', i) = LogOf(accrualLog, i)
       /\ \A i \in DOMAIN investments :
            investments[i].status = "completed" =>
                /\ investments'[i].status = "completed"
                /\ investments'[i].currentProfit = investments[i].currentProfit
                /\ LogOf(accrualLog', i) = LogOf(accrualLog, i)]_vars

\* C2 witness: one investment was completed by a run on the very day its end
\* date fell on midnight, another was completed after it had earned profit,
\* and the clock has moved on since
C2_Witness ==
    \E i, j \in DOMAIN investments :
        /\ investments[i].status = "completed"
        /\ investments[i].endDate = Midnight(investments[i].endDate)
        /\ investments[j].status = "completed"
        /\ investments[j].currentProfit > 0
        /\ now > investments[j].endDate

\* the investments of user r that a run started now credits
OwnAccruing(r) ==
    {i \in DOMAIN investments : Accrues(i) /\ investments[i].userId = r}

\* user u is paid a daily commission by a run started now
EarnsCommission(u) ==
    /\ adminConfig.isPromotionActive
    /\ adminConfig.commissionOnDailyProfit > 0
    /\ users[u].status = "active"
    /\ \E j \in DOMAIN investments :
          /\ Accrues(j)
          /\ users[investments[j].userId].invitedBy = users[u].referralCode

\* C3 as stated: after the run the owner's balance has increased by exactly
\* investedAmount * dailyRate, accumulated profit by the same amount, and
\* lastAccrualDate is today.
C3_Original ==
    [][ProcessDailyProfitsAndCommissions =>
         \A i \in DOMAIN investments :
            Accrues(i) =>
               LET o == investments[i].userId IN
               /\ users'[o].balance = users[o].balance + ProfitOf(i)
               /\ investments'[i].currentProfit =
                     investments[i].currentProfit + ProfitOf(i)
               /\ investments'[i].lastProfitCreditDate = Today]_vars

\* C3 (amended): after the run the owner's balance has increased by at least
\* investedAmount * dailyRate, and by exactly that amount when the run
\* credits the owner nothing else (no daily commission, no other investment
\* of theirs); accumulated profit has increased by exactly that amount and
\* lastAccrualDate is today.
C3_AccrualCredit ==
    [][ProcessDailyProfitsAndCommissions =>
         \A i \in DOMAIN investments :
            Accrues(i) =>
               LET o == investments[i].userId IN
               /\ users'[o].balance >= users[o].balance + ProfitOf(i)
               /\ (~EarnsCommission(o) /\ OwnAccruing(o) = {i}) =>
                     users'[o].balance = users[o].balance + ProfitOf(i)
               /\ investments'[i].currentProfit =
                     investments[i].currentProfit + ProfitOf(i)
               /\ investments'[i].lastProfitCreditDate = Today]_vars

\* C3 witness: an investment upgraded after its first credit has been
\* credited again on a later day
C3_Witness ==
    \E i \in DOMAIN investments :
        /\ investments[i].status = "active"
        /\ investments[i].lastProfitCreditDate = Today
        /\ investments[i].currentProfit > Pct(investments[i].investedAmount,
                                              investments[i].dailyProfitRate)
        /\ Cardinality(LogOf(accrualLog, i)) = 2
\* the rows of a set of investments summed: profit, and commission on it
RECURSIVE SumProfit(_)
SumProfit(S) ==
    IF S = {} THEN 0
    ELSE LET i == CHOOSE x \in S : TRUE
         IN ProfitOf(i) + SumProfit(S \ {i})

RECURSIVE SumCommission(_)
SumCommission(S) ==
    IF S = {} THEN 0
    ELSE LET i == CHOOSE x \in S : TRUE
         IN Pct(ProfitOf(i), adminConfig.commissionOnDailyProfit)
               + SumCommission(S \ {i})

ReferredAccruing(r) ==
    {i \in DOMAIN investments :
        Accrues(i) /\ users[investments[i].userId].invitedBy = users[r].referralCode}

\* C4: in one run with the promotion active and a daily commission rate > 0,
\* every active referrer ends with balance before + own daily profit + the
\* sum of dailyProfit * rate over the referred users whose investments
\* accrued in the run, in whatever order the run takes the rows.
C4_CommissionCascadeTotal ==
    [][(/\ ProcessDailyProfitsAndCommissions
        /\ adminConfig.isPromotionActive
        /\ adminConfig.commissionOnDailyProfit > 0) =>
         \A r \in UserIds :
            users[r].status = "active" =>
               users'[r].balance = users[r].balance
                                      + SumProfit(OwnAccruing(r))
                                      + SumCommission(ReferredAccruing(r))]_vars

\* the preconditions of Activate: caller not blocked, plan active, no
\* investment in the active slot, price positive and covered by the balance
ActivatePre(u, p) ==
    /\ users[u].status = "active"
    /\ plans[p].isActive
    /\ users[u].activeInvestments = <<>>
    /\ plans[p].minAmount > 0
    /\ plans[p].minAmount <= users[u].balance

\* C5: a successful Activate(user, plan) leaves the user's balance at
\* balance before - price, creates exactly one investment with
\* investedAmount = price, dailyRate = plan.dailyRate, endDate = now +
\* durationDays and status active, and attaches it to the active slot.
C5_ActivateEffects ==
    [][\A u \in UserIds, p \in PlanIds :
         (ActivateInvestment(u, p) /\ ActivatePre(u, p)) =>
            LET id == Len(investments) + 1 IN
            /\ users'[u].balance = users[u].balance - plans[p].minAmount
            /\ Len(investments') = id
            /\ \A i \in DOMAIN investments : investments'[i] = investments[i]
            /\ investments'[id].userId = u
            /\ investments'[id].investedAmount = plans[p].minAmount
            /\ investments'[id].dailyProfitRate = plans[p].dailyProfitRate
            /\ investments'[id].endDate = now + plans[p].durationDays * TicksPerDay
            /\ investments'[id].status = "active"
            /\ users'[u].activeInvestments = <<id>>]_vars

\* C5 witness: a user bought the basic plan after an earlier investment of
\* theirs had completed and left the slot
C5_Witness ==
    \E i, j \in DOMAIN investments :
        /\ i < j
        /\ investments[i].userId = investments[j].userId
        /\ investments[i].status = "completed"
        /\ investments[j].status = "active"
        /\ users[investments[j].userId].activeInvestments = <<j>>
        /\ investments[j].lastProfitCreditDate = now

\* the eligibility predicate of the commission calculator: referrer exists,
\* referrer active, promotion active, rate > 0
Eligible(ref, rate) ==
    /\ ref # NoUser
    /\ users[ref].status = "active"
    /\ adminConfig.isPromotionActive
    /\ rate > 0

\* what a successful call charging `charged` to u does to the other balances
CommissionRule(u, charged) ==
    LET ref == FindByReferralCode(users, users[u].invitedBy)
        rate == adminConfig.commissionOnPlanActivation
    IN IF Eligible(ref, rate)
       THEN users'[ref].balance = users[ref].balance + Pct(charged, rate)
       ELSE \A v \in UserIds \ {u} : users'[v].balance = users[v].balance

\* C6: every successful Activate or Upgrade whose user has an eligible
\* referrer raises the referrer's balance by exactly amountCharged *
\* activationCommissionRate (full price for Activate, price difference for
\* Upgrade); with no eligible referrer no other user's balance changes.
C6_ActivationCommissionAmount ==
    [][\A u \in UserIds, p \in PlanIds :
         /\ (ActivateInvestment(u, p) /\ investments' # investments) =>
               CommissionRule(u, plans[p].minAmount)
         /\ (UpgradeInvestment(u, p) /\ investments' # investments) =>
               CommissionRule(u, plans[p].minAmount
                    - investments[users[u].activeInvestments[1]].investedAmount)]_vars

\* C7: a referrer whose status is blocked receives no commission from a
\* referred user's Activate or Upgrade (the eligibility predicate of the
\* batch applied to both).
C7_BlockedReferrerGetsNothing ==
    [][\A u \in UserIds, p \in PlanIds :
         (ActivateInvestment(u, p) \/ UpgradeInvestment(u, p)) =>
            \A r \in UserIds :
               users[r].status = "blocked" =>
                  users'[r].balance = users[r].balance]_vars

\* no investment-day carries both a withheld and a paid commission
NoLatePayment(log) ==
    \A e, f \in log :
        (e.inv = f.inv /\ e.day = f.day /\ e.commission = "inviterBlocked")
            => f.commission # "paid"

\* C8: a run leaves the balance of every blocked user, so of every blocked
\* referrer whose referred user accrues in it, unchanged; and the commission
\* withheld for an investment-day is never paid by a later operation.
C8_BlockedReferrerInBatch ==
    [][/\ ProcessDailyProfitsAndCommissions =>
            \A r \in UserIds :
               users[r].status = "blocked" =>
                  users'[r].balance = users[r].balance
       /\ NoLatePayment(accrualLog')]_vars

\* C8 witness: a commission was withheld from the blocked referrer; the
\* referrer was unblocked and was paid for a later day of that investment
C8_Witness ==
    \E e, f \in accrualLog :
        /\ e.inv = f.inv
        /\ e.commission = "inviterBlocked"
        /\ f.commission = "paid"
        /\ f.day > e.day
        /\ users["R"].status = "active"

\* C9: an Upgrade whose new plan costs no more than the current investment's
\* investedAmount fails and leaves every user and every investment as it was.
C9_UpgradePriceGuard ==
    [][\A u \in UserIds, p \in PlanIds :
         (/\ UpgradeInvestment(u, p)
          /\ users[u].activeInvestments # <<>>
          /\ plans[p].minAmount <=
                investments[users[u].activeInvestments[1]].investedAmount)
            => UNCHANGED <<users, investments>>]_vars

\* C9 witness: an unblocked user with funds holds an active gold investment
\* bought on an earlier day, so that a call for either plan is refused
C9_Witness ==
    \E u \in UserIds :
        /\ users[u].status = "active"
        /\ users[u].activeInvestments # <<>>
        /\ users[u].balance > 0
        /\ LET inv == investments[users[u].activeInvestments[1]] IN
              /\ inv.status = "active"
              /\ inv.planId = "gold"
              /\ inv.lastProfitCreditDate < Today
              /\ \A p \in PlanIds :
                    plans[p].isActive /\ plans[p].minAmount <= inv.investedAmount

\* the preconditions the handler tests for Upgrade
UpgradePre(u, p) ==
    /\ users[u].status = "active"
    /\ plans[p].isActive
    /\ users[u].activeInvestments # <<>>
    /\ LET inv == investments[users[u].activeInvestments[1]] IN
          /\ plans[p].minAmount > inv.investedAmount
          /\ plans[p].minAmount - inv.investedAmount <= users[u].balance

\* C10: a successful Upgrade debits the user by exactly newPlan.price -
\* investedAmount before, creates no investment, and sets on the existing one
\* investedAmount = newPlan.price, dailyRate = newPlan.dailyRate, endDate =
\* now + newPlan.durationDays and lastAccrualDate = now, leaving accumulated
\* profit and status, and every other investment, as they were.
C10_UpgradeEffects ==
    [][\A u \in UserIds, p \in PlanIds :
         (UpgradeInvestment(u, p) /\ UpgradePre(u, p)) =>
            LET id == users[u].activeInvestments[1] IN
            /\ users'[u].balance = users[u].balance
                  - (plans[p].minAmount - investments[id].investedAmount)
            /\ Len(investments') = Len(investments)
            /\ \A i \in DOMAIN investments : i # id => investments'[i] = investments[i]
            /\ investments'[id].investedAmount = plans[p].minAmount
            /\ investments'[id].dailyProfitRate = plans[p].dailyProfitRate
            /\ investments'[id].endDate = now + plans[p].durationDays * TicksPerDay
            /\ investments'[id].lastProfitCreditDate = now
            /\ investments'[id].currentProfit = investments[id].currentProfit
            /\ investments'[id].status = investments[id].status
            /\ investments'[id].userId = investments[id].userId
            /\ users'[u].activeInvestments = users[u].activeInvestments]_vars

\* C10 witness: an investment that earned a day's profit at the basic rate
\* now carries the gold plan's amount and rate and an end date counted from
\* the upgrade
C10_Witness ==
    \E i \in DOMAIN investments :
        /\ investments[i].planId = "gold"
        /\ investments[i].investedAmount = plans["gold"].minAmount
        /\ investments[i].currentProfit =
              Pct(plans["basic"].minAmount, plans["basic"].dailyProfitRate)
        /\ investments[i].endDate =
              investments[i].lastProfitCreditDate
                 + plans["gold"].durationDays * TicksPerDay
        /\ investments[i].lastProfitCreditDate # Midnight(investments[i].lastProfitCreditDate)

\* C11: Upgrade succeeds only if the investment in the user's active slot has
\* status active; for a user whose slot references a completed investment, or
\* who has none, Upgrade fails, debits nothing and mutates no investment.
C11_UpgradeNeedsActiveInvestment ==
    [][\A u \in UserIds, p \in PlanIds :
         (/\ UpgradeInvestment(u, p)
          /\ \/ users[u].activeInvestments = <<>>
             \/ investments[users[u].activeInvestments[1]].status # "active")
            => UNCHANGED <<users, investments>>]_vars

\* C12: after a successful Upgrade on day D the investment is not due in any
\* run of day D: a run on the day of an investment's last credit date leaves
\* its accumulated profit and its log lines as they were and pays its owner
\* no profit; the first credit after the upgrade is made on a later day.
C12_NoSameDayAccrualAfterUpgrade ==
    [][/\ \A u \in UserIds, p \in PlanIds :
            (UpgradeInvestment(u, p) /\ UpgradePre(u, p)) =>
               users[u].activeInvestments[1] \notin Selected(investments', Today)
       /\ ProcessDailyProfitsAndCommissions =>
            \A i \in DOMAIN investments :
               investments[i].lastProfitCreditDate >= Today =>
                  /\ investments'[i].currentProfit = investments[i].currentProfit
                  /\ LogOf(accrualLog', i) = LogOf(accrualLog, i)
                  /\ OwnAccruing(investments[i].userId) = {} =>
                        users'[investments[i].userId].balance =
                           users[investments[i].userId].balance
                              + (IF EarnsCommission(investments[i].userId)
                                 THEN SumCommission(
                                         ReferredAccruing(investments[i].userId))
                                 ELSE 0)]_vars

\* C12 witness: an investment credited on day 60 at the basic rate was
\* upgraded to gold later that day and credited next on day 61, at the gold
\* rate
C12_Witness ==
    \E i \in DOMAIN investments :
        /\ investments[i].planId = "gold"
        /\ investments[i].currentProfit =
              Pct(plans["basic"].minAmount, plans["basic"].dailyProfitRate)
                 + Pct(plans["gold"].minAmount, plans["gold"].dailyProfitRate)
        /\ {e.day : e \in LogOf(accrualLog, i)} =
              {DefaultDurationDays * TicksPerDay,
               (DefaultDurationDays + 1) * TicksPerDay}

\* C13: an investment the batch completes is removed from its owner's active
\* slot in the same run, whether the owner is active or blocked; hence every
\* investment referenced from a user's active slot has status active.
C13_CompletionDetaches ==
    \A u \in UserIds :
        \A k \in DOMAIN users[u].activeInvestments :
            investments[users[u].activeInvestments[k]].status = "active"

\* ------------------------------------------------- the ledger's properties
\* the investments of user u whose status is active
ActiveOf(invs, u) ==
    {i \in DOMAIN invs : invs[i].userId = u /\ invs[i].status = "active"}

\* C14: under every sequence of non-overlapping Activate, Upgrade, deposit,
\* withdrawal, block/unblock and batch operations each user has at most one
\* investment with status active, and Activate by a user who already has one
\* fails with no state change.
C14_OneActiveInvestment ==
    [][/\ \A u \in UserIds : Cardinality(ActiveOf(investments', u)) <= 1
       /\ \A u \in UserIds, p \in PlanIds :
            (ActivateInvestment(u, p) /\ ActiveOf(investments, u) # {})
               => UNCHANGED vars]_vars

\* C14 witness: a user whose first investment completed holds a second,
\* active one and, after an approved deposit, the price of another
C14_Witness ==
    \E u \in UserIds :
        /\ \E i \in DOMAIN investments :
              investments[i].userId = u /\ investments[i].status = "completed"
        /\ ActiveOf(investments, u) # {}
        /\ users[u].status = "active"
        /\ users[u].balance >= plans["basic"].minAmount
        /\ \E d \in DOMAIN deposits : deposits[d].status = "approved"

\* one step of a record's status: kept, or moved out of pending
StatusStep(old, new) ==
    new = old \/ (old = "pending" /\ new \in {"approved", "rejected"})

\* C18: under any sequence of non-overlapping approve/reject calls the status
\* of every Deposit and Withdrawal only moves pending -> approved or pending
\* -> rejected; approved and rejected are terminal, and an approve or reject
\* call on a record that is not pending changes neither a record nor a
\* balance.
C18_StatusMachine ==
    [][/\ \A d \in DOMAIN deposits :
            /\ d \in DOMAIN deposits'
            /\ StatusStep(deposits[d].status, deposits'[d].status)
            /\ ((ApproveDeposit(d) \/ RejectDeposit(d))
                   /\ deposits[d].status # "pending")
                  => UNCHANGED <<users, deposits, withdrawals>>
       /\ \A w \in DOMAIN withdrawals :
            /\ w \in DOMAIN withdrawals'
            /\ StatusStep(withdrawals[w].status, withdrawals'[w].status)
            /\ ((ApproveWithdrawal(w) \/ RejectWithdrawal(w))
                   /\ withdrawals[w].status # "pending")
                  => UNCHANGED <<users, deposits, withdrawals>>]_vars

\* C18 witness: a rejected deposit and an approved withdrawal, both terminal
C18_Witness ==
    /\ \E d \in DOMAIN deposits : deposits[d].status = "rejected"
    /\ \E w \in DOMAIN withdrawals : withdrawals[w].status = "approved"

\* the amounts of user u's withdrawals that are held: pending or approved
RECURSIVE HeldBy(_, _, _)
HeldBy(ws, u, k) ==
    IF k > Len(ws) THEN 0
    ELSE (IF ws[k].userId = u /\ ws[k].status # "rejected"
          THEN ws[k].amount ELSE 0) + HeldBy(ws, u, k + 1)

\* with nothing else done on the account, the balance is the opening balance
\* less the withdrawals held
HoldAccount ==
    (investments = <<>> /\ deposits = <<>>) =>
        \A u \in UserIds :
            users[u].balance = InitUsers[u].balance - HeldBy(withdrawals, u, 1)

\* C19: a successful withdrawal request of amount a debits the requester by a
\* at request time; approving it changes no balance; rejecting it credits
\* back exactly a, once; so a request followed by its rejection, with nothing
\* else done on the account, restores the balance before the request.
C19_WithdrawalHoldRoundTrip ==
    [][/\ \A u \in UserIds, a \in WithdrawalAmounts, m \in MinutesOfDay :
            (withdrawals' # withdrawals /\ RequestWithdrawal(u, a, m)) =>
               /\ users' = [users EXCEPT ![u].balance = @ - a]
               /\ withdrawals' = Append(withdrawals, withdrawals'[Len(withdrawals')])
               /\ withdrawals'[Len(withdrawals')].userId = u
               /\ withdrawals'[Len(withdrawals')].amount = a
               /\ withdrawals'[Len(withdrawals')].status = "pending"
       /\ \A w \in 1 .. MaxWithdrawals :
            /\ ApproveWithdrawal(w) => users' = users
            /\ RejectWithdrawal(w) =>
                  IF w \in DOMAIN withdrawals /\ withdrawals[w].status = "pending"
                  THEN users' = [users EXCEPT ![withdrawals[w].userId].balance =
                                    @ + withdrawals[w].amount]
                  ELSE users' = users
       /\ HoldAccount']_vars

\* C19 witness: a withdrawal was requested and rejected and the requester,
\* who did nothing else, has the opening balance again
C19_Witness ==
    /\ investments = <<>>
    /\ deposits = <<>>
    /\ \E w \in DOMAIN withdrawals :
          /\ withdrawals[w].status = "rejected"
          /\ users[withdrawals[w].userId].balance =
                InitUsers[withdrawals[w].userId].balance

\* the configured window in minutes of the day
WindowStart ==
    adminConfig.withdrawalStartTime[1] * 60 + adminConfig.withdrawalStartTime[2]
WindowEnd ==
    adminConfig.withdrawalEndTime[1] * 60 + adminConfig.withdrawalEndTime[2]

\* C20 as stated: a withdrawal request is admitted only when the local
\* minute of the day m satisfies start <= m < end; a request at m = end, or
\* outside the window, leaves the balance and the withdrawals unchanged.
C20_Original ==
    [][\A u \in UserIds, a \in WithdrawalAmounts, m \in MinutesOfDay :
         ((users' # users \/ withdrawals' # withdrawals)
             /\ RequestWithdrawal(u, a, m))
            => (WindowStart <= m /\ m < WindowEnd)]_vars

\* C20 (amended): the window is closed: the time test passes exactly at the
\* minutes start <= m <= end, the minute m = end included, and a request
\* that changes a balance or the withdrawals was received at such a minute;
\* a request outside the window leaves both unchanged.
C20_WithdrawalWindowClosed ==
    /\ [](\A m \in MinutesOfDay :
             IsWithdrawalTimeAllowed(adminConfig.withdrawalStartTime,
                                     adminConfig.withdrawalEndTime, m)
                <=> (WindowStart <= m /\ m <= WindowEnd))
    /\ [][\A u \in UserIds, a \in WithdrawalAmounts, m \in MinutesOfDay :
            ((users' # users \/ withdrawals' # withdrawals)
                /\ RequestWithdrawal(u, a, m))
               => /\ WindowStart <= m /\ m <= WindowEnd
                  /\ withdrawals'[Len(withdrawals')].requestDate = m]_vars

\* C20 witness: a withdrawal requested at the last minute of the window in
\* force
C20_Witness ==
    \E w \in DOMAIN withdrawals :
        /\ withdrawals[w].requestDate = WindowEnd
        /\ withdrawals[w].status = "pending"

\* ------------------------------------------- the properties of the races
\* what user u paid for the investments created in their name
RECURSIVE InvestedBy(_, _, _)
InvestedBy(invs, u, k) ==
    IF k > Len(invs) THEN 0
    ELSE (IF invs[k].userId = u THEN invs[k].investedAmount ELSE 0)
            + InvestedBy(invs, u, k + 1)

\* C15: for every interleaving of the read and write steps of two Activate
\* requests issued concurrently by the same user, at most one investment
\* with status active exists for that user afterwards, and the user's
\* balance is debited once for each investment created.
C15_ConcurrentActivate ==
    Quiescent =>
        \A u \in Transacting :
            /\ Cardinality(ActiveOf(investments, u)) <= 1
            /\ users[u].balance =
                  InitUsers[u].balance - InvestedBy(investments, u, 1)

\* the approved deposits of user u summed
RECURSIVE ApprovedFor(_, _, _)
ApprovedFor(ds, u, k) ==
    IF k > Len(ds) THEN 0
    ELSE (IF ds[k].userId = u /\ ds[k].status = "approved" THEN ds[k].amount ELSE 0)
            + ApprovedFor(ds, u, k + 1)

\* C17: for every deposit and every interleaving of approveDeposit and
\* rejectDeposit requests on it, the owner's balance is credited
\* deposit.amount exactly once if the deposit ends approved and zero times if
\* it ends rejected.
C17_DepositCreditedOnce ==
    Quiescent =>
        \A u \in UserIds :
            users[u].balance = InitUsers[u].balance + ApprovedFor(deposits, u, 1)
\* C16: whatever way the steps of two requests running side by side fall
\* among one another (activation, upgrade, withdrawal request, approval and
\* rejection, deposit approval and rejection, the daily run), no stored
\* balance is ever negative.
C16_BalanceNonNegative == \A u \in UserIds : users[u].balance >= 0

\* two requests in progress for one account, each past its test of the
\* balance it loaded, whose debits together exceed what is stored
C16_Witness ==
    \E c1, c2 \in Clients :
        /\ c1 # c2
        /\ calls[c1].pc \in {"create", "saveUser", "saveInvestment"}
        /\ calls[c2].pc \in {"create", "saveUser", "saveInvestment"}
        /\ calls[c1].op \in {"activateInvestment", "upgradeInvestment", "requestWithdrawal"}
        /\ calls[c2].op \in {"activateInvestment", "upgradeInvestment", "requestWithdrawal"}
        /\ calls[c1].u = calls[c2].u
        /\ (calls[c1].loaded - calls[c1].balance)
              + (calls[c2].loaded - calls[c2].balance) > users[calls[c1].u].balance

\* the inviter of u, when the run selects nothing of the inviter's own and
\* every selected investment the inviter could earn on has a blocked owner,
\* ends the run with the balance it had
NoCommissionFrom(u) ==
    LET r == FindByReferralCode(users, users[u].invitedBy)
        sel == Selected(investments, Today)
    IN
    (/\ r # NoUser
     /\ \A j \in sel : investments[j].userId # r
     /\ \A j \in sel :
            users[investments[j].userId].invitedBy = users[r].referralCode
               => users[investments[j].userId].status = "blocked")
        => users'[r].balance = users[r].balance

\* C21: a daily run that selects an investment whose owner is blocked leaves
\* the owner's balance, the investment's currentProfit and its
\* lastProfitCreditDate as they were and records no credit or commission for
\* it, and the investment is completed by the run exactly when its endDate
\* is not after today.
C21_BlockedOwnerSkipped ==
    [][ProcessDailyProfitsAndCommissions =>
         \A i \in Selected(investments, Today) :
             users[investments[i].userId].status = "blocked" =>
                 /\ users'[investments[i].userId].balance
                       = users[investments[i].userId].balance
                 /\ investments'[i].currentProfit = investments[i].currentProfit
                 /\ investments'[i].lastProfitCreditDate
                       = investments[i].lastProfitCreditDate
                 /\ \A e \in accrualLog' \ accrualLog : e.inv # i
                 /\ NoCommissionFrom(investments[i].userId)
                 /\ investments'[i].status =
                       IF Matured(investments[i], Today) THEN "completed" ELSE "active"]_vars

\* a blocked owner's matured investment has just been completed by a run, the
\* owner's balance untouched and nothing recorded for it
C21_Witness ==
    \E i \in DOMAIN investments :
        /\ investments[i].status = "completed"
        /\ users[investments[i].userId].status = "blocked"
        /\ Len(users[investments[i].userId].activeInvestments) > 0
        /\ users[investments[i].userId].activeInvestments[1] = i
        /\ \A e \in accrualLog : e.inv # i

\* the row of investment id has been dealt with by a run of day today: it is
\* no longer selected, or its owner was blocked when the run loaded it
Handled(invs, call, id) ==
    \/ ~DueForCredit(invs[id], call.today)
    \/ OwnerSkipped(call.mem[call.docs[id].userId])

\* C22: when a daily run ends, every investment that came after the row the
\* run was at has been processed by it; a row whose write fails does not keep
\* the run from the rows that follow.
C22_RowFailureIsolated ==
    [][\A c \in Clients :
          (/\ calls[c].op = "processDailyProfitsAndCommissions"
           /\ calls'[c].op = "idle")
             => \A j \in 1 .. Len(calls[c].order) :
                   j > calls[c].k => Handled(investments', calls[c], calls[c].order[j])]_vars

\* the profit stored on the investments of u
RECURSIVE ProfitStored(_, _, _)
ProfitStored(invs, u, k) ==
    IF k > Len(invs) THEN 0
    ELSE (IF invs[k].userId = u THEN invs[k].currentProfit ELSE 0)
            + ProfitStored(invs, u, k + 1)

\* C25: between requests, with A the only investor, what R has been paid in
\* daily commissions is the rate on the profit recorded on A's investments,
\* and what A has been credited is that profit: no commission is persisted
\* without the accrual it is paid on, whichever write of a row failed, and
\* none is paid twice for one day when the run is made again.
C25_CommissionWithAccrual ==
    (Quiescent /\ \A i \in DOMAIN investments : investments[i].userId = "A")
       => /\ users["R"].balance =
                InitUsers["R"].balance
                  + Pct(InvestedBy(investments, "A", 1), DefaultActivationCommission)
                  + Pct(ProfitStored(investments, "A", 1), DefaultDailyCommission)
          /\ users["A"].balance =
                InitUsers["A"].balance - InvestedBy(investments, "A", 1)
                  + ProfitStored(investments, "A", 1)

\* C26: between requests, every Investment that exists has been paid for: A's
\* balance is what A started with less the amounts invested, and R has the
\* activation commission on exactly those amounts; an activation or upgrade
\* whose write failed has left nothing behind.
C26_NoPartialEffect ==
    Quiescent =>
        /\ users["A"].balance =
              InitUsers["A"].balance - InvestedBy(investments, "A", 1)
        /\ users["R"].balance =
              InitUsers["R"].balance
                + Pct(InvestedBy(investments, "A", 1), DefaultActivationCommission)
        /\ \A i \in DOMAIN investments :
              \E k \in DOMAIN users["A"].activeInvestments :
                  users["A"].activeInvestments[k] = i

\* C23: two triggers of the daily run on one day, their steps falling among
\* one another in any way, credit no investment twice and pay no referrer
\* twice: once both have ended, R holds the commission on the profit recorded
\* on A's investment and no more, and A holds that profit.
C23_NoOverlappingRuns ==
    Quiescent =>
        /\ users["R"].balance =
              BoughtBasic["R"].balance
                + Pct(ProfitStored(investments, "A", 1), DefaultDailyCommission)
        /\ users["A"].balance =
              BoughtBasic["A"].balance + ProfitStored(investments, "A", 1)
        /\ \A i \in DOMAIN investments :
              investments[i].currentProfit
                 = DailyProfit(investments[i]) * Cardinality(LogOf(accrualLog, i))

\* C24: a daily run and the requests that move a balance, their steps
\* falling among one another in any way, lose no update: once they have
\* ended, A's balance is the opening balance less the amounts invested and
\* the withdrawals held, plus the profit recorded and the deposits approved,
\* and R's balance is the opening balance plus the commissions on those
\* amounts and on that profit.
C24_NoLostUpdate ==
    Quiescent =>
        /\ users["A"].balance =
              InitUsers["A"].balance
                - InvestedBy(investments, "A", 1)
                - HeldBy(withdrawals, "A", 1)
                + ProfitStored(investments, "A", 1)
                + ApprovedFor(deposits, "A", 1)
        /\ users["R"].balance =
              InitUsers["R"].balance
                + Pct(InvestedBy(investments, "A", 1), DefaultActivationCommission)
                + Pct(ProfitStored(investments, "A", 1), DefaultDailyCommission)

\* C27 as stated: every run that accrues an investment moves its
\* lastProfitCreditDate on by exactly one day and credits one day's profit,
\* whatever the gap between the previous date and today.
C27_Original ==
    [][ProcessDailyProfitsAndCommissions =>
         \A i \in DOMAIN investments :
            Accrues(i) =>
               /\ investments'[i].lastProfitCreditDate
                     = AddDays(investments[i].lastProfitCreditDate, 1)
               /\ investments'[i].currentProfit
                     = investments[i].currentProfit + ProfitOf(i)]_vars

\* C27 (amended): every run that accrues an investment sets its
\* lastProfitCreditDate to the midnight of the day of the run, a later
\* instant than the previous date, and credits exactly one day's profit,
\* whatever the gap; the date moves on by exactly one day only when the
\* previous date was the midnight of the day before.
C27_AccrualDateIsToday ==
    [][ProcessDailyProfitsAndCommissions =>
         \A i \in DOMAIN investments :
            Accrues(i) =>
               LET before == investments[i].lastProfitCreditDate
                   after == investments'[i].lastProfitCreditDate
               IN
               /\ after = Today
               /\ after > before
               /\ (after = AddDays(before, 1)) <=> (before = AddDays(Today, -1))
               /\ investments'[i].currentProfit - investments[i].currentProfit
                     = ProfitOf(i)]_vars

\* an investment bought more than a day ago has just had its first credit:
\* one day's profit, dated today
C27_Witness ==
    \E i \in DOMAIN investments :
        /\ LogOf(accrualLog, i) = {e \in accrualLog : e.inv = i /\ e.day = Today}
        /\ LogOf(accrualLog, i) # {}
        /\ investments[i].lastProfitCreditDate = Today
        /\ investments[i].currentProfit = ProfitOf(i)
        /\ AddDays(investments[i].endDate, -DefaultDurationDays) < AddDays(Today, -1)

\* what an operation on the plans may not touch in an investment
Copied(inv) ==
    <<inv.investedAmount, inv.dailyProfitRate, inv.endDate, inv.status>>

\* C28: creating, updating or deleting a plan leaves investedAmount,
\* dailyProfitRate, endDate and status of every investment as they were, and
\* a daily run credits each investment the product of the amount and the
\* rate stored on the investment, whatever its plan says by then.
C28_PlanEditsNotRetroactive ==
    [][/\ plans' # plans =>
             /\ DOMAIN investments' = DOMAIN investments
             /\ \A i \in DOMAIN investments :
                   Copied(investments'[i]) = Copied(investments[i])
       /\ ProcessDailyProfitsAndCommissions =>
             \A i \in DOMAIN investments :
                /\ investments'[i].investedAmount = investments[i].investedAmount
                /\ investments'[i].dailyProfitRate = investments[i].dailyProfitRate
                /\ investments'[i].endDate = investments[i].endDate
                /\ Accrues(i) =>
                      investments'[i].currentProfit - investments[i].currentProfit
                         = Pct(investments[i].investedAmount,
                               investments[i].dailyProfitRate)]_vars

\* an investment whose plan has since been given another price and rate has
\* been credited today, once, the profit of the amount and rate it holds
C28_Witness ==
    \E i \in DOMAIN investments :
        /\ investments[i].planId \in DOMAIN plans
        /\ plans[investments[i].planId].minAmount # investments[i].investedAmount
        /\ plans[investments[i].planId].dailyProfitRate # investments[i].dailyProfitRate
        /\ investments[i].lastProfitCreditDate = Today
        /\ Cardinality(LogOf(accrualLog, i)) = 1
        /\ investments[i].currentProfit = ProfitOf(i)

\* the midnight of the last day observed
LastDay == Midnight(CHOOSE t \in Instants : \A x \in Instants : x <= t)

\* C29: an active investment whose endDate is not after today is always
\* among the rows a run selects (the date of its last credit never hides
\* it), and a run made on such a day leaves it completed; so, the run being
\* made every day, an investment whose endDate falls within the days observed
\* is in the end completed, unless an upgrade has moved its endDate on.
C29_MaturityLiveness ==
    /\ [](\A i \in DOMAIN investments :
             (investments[i].status = "active" /\ investments[i].endDate <= Today)
                => i \in Selected(investments, Today))
    /\ [][ProcessDailyProfitsAndCommissions =>
             \A i \in DOMAIN investments :
                (investments[i].status = "active" /\ investments[i].endDate <= Today)
                   => investments'[i].status = "completed"]_vars
    /\ \A i \in 1 .. MaxInvestments :
          [](( /\ i \in DOMAIN investments
               /\ investments[i].endDate <= LastDay)
                => <>(/\ i \in DOMAIN investments
                      /\ \/ investments[i].status = "completed"
                         \/ investments[i].endDate > LastDay))

\* an investment has run out and a run has completed it on the first day on
\* which its endDate was not after today
C29_Witness ==
    \E i \in DOMAIN investments :
        /\ investments[i].status = "completed"
        /\ investments[i].endDate <= Today
        /\ investments[i].endDate > AddDays(Today, -1)


\* the instant of the purchase or of the latest upgrade: both set
\* endDate = now + durationDays, and durationDays is 60 on every plan
PeriodStart(inv) == AddDays(inv.endDate, -DefaultDurationDays)

\* the last calendar day an investment of this model can end on
LastEndDay == (LastDay \div TicksPerDay) + DefaultDurationDays

\* the calendar days after the day of the purchase or latest upgrade whose
\* midnight lies before the end date
CreditDays(inv) ==
    {d \in 0 .. LastEndDay :
        /\ Midnight(PeriodStart(inv)) < d * TicksPerDay
        /\ d * TicksPerDay < inv.endDate}

\* C30: with batch runs that do not overlap, any number of them per day, an
\* investment is credited profit at most once per calendar day (a credit
\* needs a last credit date before the day and leaves the day as the last
\* credit date, and that date never goes back), and every credit falls on a
\* day after the purchase or most recent upgrade and before the end date,
\* which are at most durationDays distinct days.
C30_BoundedAccruals ==
    /\ [][\A i \in DOMAIN investments :
             /\ investments'[i].lastProfitCreditDate
                   >= investments[i].lastProfitCreditDate
             /\ investments'[i].currentProfit # investments[i].currentProfit =>
                   /\ investments[i].lastProfitCreditDate
                         < investments'[i].lastProfitCreditDate
                   /\ investments'[i].lastProfitCreditDate = Midnight(now)
                   /\ (investments'[i].lastProfitCreditDate \div TicksPerDay)
                         \in CreditDays(investments'[i])]_vars
    /\ [](\A i \in DOMAIN investments :
             Cardinality(CreditDays(investments[i])) <= DefaultDurationDays)


\* C31: an investment created by activateInvestment on a day is selected by
\* no batch run of that day: its lastProfitCreditDate starts at the instant
\* of its creation, it stays at or after today's midnight for the rest of
\* the day, and a run made while it is so leaves the investment as it is and
\* logs no profit and no commission for it.
C31_NoAccrualOnActivationDay ==
    /\ [][\A i \in DOMAIN investments' :
             i \notin DOMAIN investments =>
                /\ investments'[i].lastProfitCreditDate = now
                /\ investments'[i].currentProfit = 0
                /\ i \notin Selected(investments', Today)
                /\ LogOf(accrualLog', i) = {}]_vars
    /\ [][\A i \in DOMAIN investments :
             (investments[i].lastProfitCreditDate >= Today /\ now' = now) =>
                /\ investments'[i].lastProfitCreditDate >= Today
                /\ ProcessDailyProfitsAndCommissions =>
                      /\ investments'[i] = investments[i]
                      /\ LogOf(accrualLog', i) = LogOf(accrualLog, i)]_vars

\* C31 witness: on a later day one investment was bought and has earned
\* nothing, while a run of that day has credited another investment
C31_Witness ==
    \E i, j \in DOMAIN investments :
        /\ i # j
        /\ Today > 0
        /\ investments[i].lastProfitCreditDate >= Today
        /\ investments[i].endDate = AddDays(investments[i].lastProfitCreditDate,
                                            DefaultDurationDays)
        /\ investments[i].currentProfit = 0
        /\ LogOf(accrualLog, i) = {}
        /\ \E e \in LogOf(accrualLog, j) : e.day = Today


\* the amounts of the withdrawals of user u from the k-th on that are held
\* back from the balance: those not rejected
RECURSIVE Withheld(_, _, _)
Withheld(ws, u, k) ==
    IF k > Len(ws)
    THEN 0
    ELSE (IF ws[k].userId = u /\ ws[k].status # "rejected" THEN ws[k].amount ELSE 0)
         + Withheld(ws, u, k + 1)

\* C32: however the steps of two withdrawal requests of one user fall, once
\* they have ended the amounts of the withdrawals created for the user add
\* up to what was taken from the balance; so a rejection never gives back
\* more than was taken.
C32_WithdrawalsNeverOverCommit ==
    (Quiescent /\ \A w \in DOMAIN withdrawals : withdrawals[w].status = "pending") =>
        \A u \in UserIds :
            InitUsers[u].balance - users[u].balance = Withheld(withdrawals, u, 1)


\* C33: however the steps of one approveWithdrawal and one rejectWithdrawal
\* on the same pending withdrawal fall, once both have ended the owner has
\* the amount back if and only if the withdrawal is stored as rejected.
C33_RefundIffRejected ==
    Quiescent =>
        \A w \in DOMAIN withdrawals :
            LET u == withdrawals[w].userId
                others == [k \in DOMAIN withdrawals |->
                             IF k = w
                             THEN [withdrawals[k] EXCEPT !.status = "rejected"]
                             ELSE withdrawals[k]]
                back == users[u].balance
                           - (InitUsers[u].balance - Withheld(others, u, 1))
            IN
            /\ withdrawals[w].status = "rejected" => back = 0
            /\ withdrawals[w].status # "rejected" => back = -withdrawals[w].amount


\* C34: in every reachable state every account with isAdmin = true has
\* status active: neither blockUser nor the automatic blocking of the
\* accounts sharing a visitorId in registerUser blocks an administrator.
C34_AdminsNeverBlocked ==
    \A u \in DOMAIN users : users[u].isAdmin => users[u].status = "active"


\* a request the user makes through a route behind protect
IssuedBy(u) ==
    \/ \E p \in PlanIds : ActivateInvestment(u, p)
    \/ \E p \in PlanIds : UpgradeInvestment(u, p)
    \/ \E amount \in DepositAmounts : RequestDeposit(u, amount)
    \/ \E amount \in WithdrawalAmounts, m \in MinutesOfDay :
          RequestWithdrawal(u, amount, m)

\* C35: while a user's status is blocked, an activation, an upgrade, a
\* deposit request or a withdrawal request made by that user is turned away
\* by protect and changes no balance, investment, deposit or withdrawal.
C35_BlockedCannotTransact ==
    [][\A u \in UserIds :
          (users[u].status = "blocked" /\ IssuedBy(u)) =>
             UNCHANGED <<users, investments, deposits, withdrawals>>]_vars

\* C35 witness: a blocked user who holds an investment that a dearer plan
\* could replace and the money for it, at an hour when withdrawals are taken
\* and with room for one more deposit and one more withdrawal
C35_Witness ==
    \E u \in UserIds :
        /\ users[u].status = "blocked"
        /\ Len(users[u].activeInvestments) = 1
        /\ \E p \in PlanIds :
              /\ plans[p].minAmount
                    > investments[users[u].activeInvestments[1]].investedAmount
              /\ users[u].balance
                    >= plans[p].minAmount
                          - investments[users[u].activeInvestments[1]].investedAmount
        /\ users[u].balance >= adminConfig.minWithdrawalAmount
        /\ \E m \in MinutesAt(now) :
              IsWithdrawalTimeAllowed(adminConfig.withdrawalStartTime,
                                      adminConfig.withdrawalEndTime, m)
        /\ Len(deposits) < MaxDeposits
        /\ Len(withdrawals) < MaxWithdrawals


\* C36: every investment ever created has investedAmount > 0, and no
\* operation lowers an investment's investedAmount: upgradeInvestment is the
\* only one that changes it, and it raises it.
C36_InvestedAmount ==
    /\ [](\A i \in DOMAIN investments : investments[i].investedAmount > 0)
    /\ [][\A i \in DOMAIN investments :
             /\ investments'[i].investedAmount >= investments[i].investedAmount
             /\ investments'[i].investedAmount # investments[i].investedAmount =>
                   /\ investments'[i].investedAmount
                         > investments[i].investedAmount
                   /\ \E u \in UserIds, p \in PlanIds :
                         UpgradeInvestment(u, p)]_vars

\* C36 witness: an investment that earned a day's profit at the basic price
\* has been raised by an upgrade, a plan on offer has had its price set to
\* zero, and a user with no investment and an open account could ask for it
C36_Witness ==
    /\ \E i \in DOMAIN investments :
          /\ investments[i].investedAmount > InitPlans["basic"].minAmount
          /\ investments[i].currentProfit =
                Pct(InitPlans["basic"].minAmount, InitPlans["basic"].dailyProfitRate)
    /\ \E p \in DOMAIN plans : plans[p].minAmount = 0 /\ plans[p].isActive
    /\ \E u \in UserIds :
          /\ users[u].status = "active"
          /\ users[u].activeInvestments = <<>>
    /\ Len(investments) < MaxInvestments

====
